---- MODULE Spec2Model ----
(***************************************************************************)
(* Model of signet-filler: the order pipeline of FillerTask                *)
(* (src/src/filler_task/mod.rs), its filled-orders LRU cache, the Permit2  *)
(* nonce check and the static profitability client                         *)
(* (src/src/pricing/static_client.rs).                                     *)
(*                                                                         *)
(* One cycle of process_orders is unfolded into its suspension points:     *)
(*   waiting -> stream -> cache -> profit -> stream ... -> nonce -> fill   *)
(* U256 bitmap words are sets of bit positions (bit b set <=> b \in word). *)
(* U256 amounts are naturals below 2^UBits.                                *)
(***************************************************************************)
EXTENDS Integers, Sequences, FiniteSets, TLC

VARIABLES
    filled_orders,  \* FillerTask.filled_orders: LRU, most recently used first
    pc,             \* position of run_loop / process_orders
    cur,            \* the order travelling through the stream combinators
    orders_count,   \* process_orders local
    candidates,     \* process_orders local: Vec<SignedOrder>
    calls,          \* nonceBitmap calls issued in this cycle, in issue order
    reads,          \* per candidate: response of its nonceBitmap call
    results,        \* per candidate: output of its unfilled() future
    fills,          \* arguments of the filler.fill calls of this cycle
    ret,            \* what process_orders returned last
    log,            \* the last info/warn/error line of the cycle
    fetched,        \* history: orders yielded by the stream in this cycle
    hits,           \* history: orders the cache check dropped in this cycle
    checked,        \* history: orders whose cache check ran in this cycle
    evaluated,      \* history: is_profitable results of this cycle
    cache_at_tick,  \* history: the cache when this cycle started
    out_of_order,   \* history: a nonce read returned before an earlier one
    observed_set,   \* history: hashes whose nonce bit a read observed set
    filled_orders_guard  \* who holds the MutexGuard of filled_orders

vars == <<filled_orders, pc, cur, orders_count, candidates, calls, reads,
          results, fills, ret, log, fetched, hits, checked, evaluated,
          cache_at_tick, out_of_order, observed_set, filled_orders_guard>>

\* The scheduler and its supervisor (FillerTask::run, FillerTask::run_loop).
\* Time is counted in model units from the first submission anchor.
VARIABLES
    now,              \* the clock: Instant::now() minus the anchor
    start_time,       \* history: the clock when run_loop built its interval
    deadline,         \* Interval: the instant its next tick is scheduled for
    cancelled,        \* cancellation_token.is_cancelled()
    task,             \* the JoinHandle of run_loop
    run_ret,          \* what FillerTask::run returned
    cycles,           \* history: cycles started so far (counted up to 2)
    started_at,       \* history: when the latest cycle started
    prev_started_at,  \* history: when the cycle before it started
    cancel_pc,        \* history: where the loop was when cancel() was called
    ended_cancelled,  \* history: was the signal set when the loop task ended
    prev_ret          \* history: what the cycle before the latest returned

svars == <<now, start_time, deadline, cancelled, task, run_ret, cycles, started_at,
           prev_started_at, cancel_pc, ended_cancelled, prev_ret>>

\* Startup: main and FillerTask::initialize with its three connections.
VARIABLES
    init_pc,        \* position of initialize: signer, connecting, done
    conn,           \* per target: state of its connect future
    attempts,       \* per target: calls of the connect closure so far
    retry_counter,  \* per target: the CONNECTION_RETRY_ATTEMPTS counter
    warned,         \* per target: warn! events emitted by notify
    last_err,       \* per target: the error of its latest failed attempt
    init_ret,       \* what initialize returned
    main_ret        \* what main did with it

ivars == <<init_pc, conn, attempts, retry_counter, warned, last_err,
           init_ret, main_ret>>

\* The pricing clients applied to one order: StaticPricingClient,
\* FixedPricingClient and RadiusPricingClient with its quote requests.
VARIABLES
    q_order,     \* the order handed to the clients
    q_static,    \* result of StaticPricingClient::is_profitable
    q_fixed,     \* result of FixedPricingClient::is_acceptable
    q_max_loss,  \* FixedPricingClient.max_loss_percent (0 until constructed)
    q_radius,    \* result of RadiusPricingClient::is_profitable
    q_round,     \* where the quoting client is: idle, inputs, round1, round2
    q_groups,    \* quoting client locals: input_groups, output_groups, splits
    q_requests,  \* quote requests sent so far, in issue order
    q_quotes     \* per request of the current round: its response

qvars == <<q_order, q_static, q_fixed, q_max_loss, q_radius, q_round,
           q_groups, q_requests, q_quotes>>

\* compute_output_splits applied to an input amount and round-1 quotes
VARIABLES
    s_input_amount,  \* argument input_amount
    s_quotes,        \* argument quotes: a list of OutputQuote
    s_splits,        \* what compute_output_splits returned
    s_round2,        \* round2_results of quote_outputs
    s_cost,          \* what quote_outputs returned
    s_profitable     \* what is_profitable returned

cvars == <<s_input_amount, s_quotes, s_splits, s_round2, s_cost, s_profitable>>

\* the variables outside the pipeline and the scheduler
ovars == <<ivars, qvars, cvars>>

(***************************************************************************)
(* Bounds and constants                                                    *)
(***************************************************************************)
\* capacity of the LRU in the model (FILLED_ORDERS_CACHE_SIZE scaled down)
CacheCap == 2
\* width of an amount in the model (U256 scaled down)
UBits == 15
\* configuration of the static pricing client (scaled down)
min_profit_threshold == 1
gas_estimate_per_order == 1
gas_price_gwei == 1
WeiPerGwei == 2
\* nonce >> 8, nonce & 0xFF, width of a bitmap word
NonceShift == 8
NonceMask == 255
WordBits == 256

\* slot_duration in model time units, and the horizon of the clock
SlotDuration == 3
MaxTime == 9
\* MAX_SUPPORTED_OUTPUT_GROUPS and PRECISION of the quoting client, scaled
MAX_SUPPORTED_OUTPUT_GROUPS == 2
PRECISION == 10
\* longest list of inputs of an order handed to the pricing clients
MaxInputs == 2
\* connect closure calls per target the model follows
MaxAttempts == 3
\* no instant: the value of started_at before the first cycle
NoTime == -1

UMod == 2 ^ UBits
UMax == UMod - 1

(***************************************************************************)
(* Orders the pool can hold.  The index is the order hash.                 *)
(***************************************************************************)
Order(owner, nonce, permitted, outputs) ==
    [owner |-> owner, nonce |-> nonce, permitted |-> permitted, outputs |-> outputs]

OrderPool ==
    <<Order("a", 0,   <<40>>,     <<1>>),
      Order("a", 255, <<30, 30>>, <<2, 3>>),
      Order("b", 513, <<50>>,     <<5>>),
      Order("b", 7,   <<5>>,      <<5>>),
      Order("a", 256, <<>>,       <<1>>)>>

Hashes == 1 .. Len(OrderPool)
NoOrder == 0
\* the Err item of the order stream, as recorded in `fetched`
StreamFailure == -1

None == [tag |-> "None"]
Some(h) == [tag |-> "Some", order |-> h]
Pending == [tag |-> "Pending"]
Err(e) == [tag |-> "Err", error |-> e]
Ok(v) == [tag |-> "Ok", value |-> v]

(***************************************************************************)
(* U256 arithmetic (ruint): + and * wrap, saturating_add clamps.           *)
(***************************************************************************)
wrapping_add(a, b) == (a + b) % UMod
wrapping_mul(a, b) == (a * b) % UMod
saturating_add(a, b) == IF a + b > UMax THEN UMax ELSE a + b

RECURSIVE fold_add(_)
fold_add(amounts) ==
    IF amounts = <<>> THEN 0
    ELSE wrapping_add(fold_add(SubSeq(amounts, 1, Len(amounts) - 1)),
                      amounts[Len(amounts)])

(***************************************************************************)
(* StaticPricingClient                                                     *)
(***************************************************************************)
calculate_total_input_value(order) == fold_add(order.permitted)
calculate_total_output_value(order) == fold_add(order.outputs)

estimate_fill_cost(order) ==
    IF order.permitted = <<>> THEN Err("NoInputs")
    ELSE IF order.outputs = <<>> THEN Err("NoOutputs")
    ELSE Ok([estimated_gas |-> gas_estimate_per_order,
             estimated_gas_cost |->
                 wrapping_mul(wrapping_mul(gas_estimate_per_order, gas_price_gwei),
                              WeiPerGwei),
             total_input_value |-> calculate_total_input_value(order),
             total_output_value |-> calculate_total_output_value(order)])

is_profitable(order) ==
    LET estimate == estimate_fill_cost(order) IN
    IF estimate.tag = "Err" THEN estimate
    ELSE LET total_cost ==
                 saturating_add(
                     saturating_add(estimate.value.total_output_value,
                                    estimate.value.estimated_gas_cost),
                     min_profit_threshold)
         IN Ok(estimate.value.total_input_value >= total_cost)

(***************************************************************************)
(* LruCache<B256, ()>: a sequence of keys, most recently used first.       *)
(***************************************************************************)
Keys(cache) == {cache[i] : i \in 1 .. Len(cache)}

lru_contains(cache, h) == h \in Keys(cache)

\* mutant: the lookup is a get, which makes a hit the most recent entry
lru_after_get(cache, h) ==
    IF h \in Keys(cache)
    THEN <<h>> \o SelectSeq(cache, LAMBDA x : x # h)
    ELSE cache

\* the cache after LruCache::contains: the recency list is not touched
lru_after_contains(cache, h) == cache

RECURSIVE Without(_, _)
Without(cache, h) ==
    IF cache = <<>> THEN <<>>
    ELSE IF Head(cache) = h THEN Without(Tail(cache), h)
    ELSE <<Head(cache)>> \o Without(Tail(cache), h)

\* mutant: a full cache makes room by dropping its most recent entry
lru_put_evicts_newest(cache, h) ==
    IF lru_contains(cache, h) THEN <<h>> \o Without(cache, h)
    ELSE IF Len(cache) >= CacheCap THEN <<h>> \o Tail(cache)
    ELSE <<h>> \o cache

lru_put(cache, h) ==
    IF lru_contains(cache, h) THEN <<h>> \o Without(cache, h)
    ELSE IF Len(cache) >= CacheCap THEN <<h>> \o SubSeq(cache, 1, CacheCap - 1)
    ELSE <<h>> \o cache

(***************************************************************************)
(* Permit2 nonce arithmetic of FillerTask::unfilled.                       *)
(***************************************************************************)
RECURSIVE BitAnd(_, _)
BitAnd(a, b) ==
    IF a = 0 \/ b = 0 THEN 0
    ELSE (a % 2) * (b % 2) + 2 * BitAnd(a \div 2, b \div 2)

word_pos(nonce) == nonce \div (2 ^ NonceShift)
bit_pos(nonce) == BitAnd(nonce, NonceMask)

\* bitmap >> n on a 256-bit word
Shr(bitmap, n) == {b - n : b \in {x \in bitmap : x >= n}}
U256_ONE == {0}
U256_ZERO == {}

\* mutant: the word is tested without the shift by bit_pos
is_filled_unshifted(bitmap, nonce) ==
    (bitmap \cap U256_ONE) # U256_ZERO

is_filled(bitmap, nonce) ==
    (Shr(bitmap, bit_pos(nonce)) \cap U256_ONE) # U256_ZERO

\* the words a nonceBitmap read returns in the model
BitmapWords ==
    { {}, {0, 254}, {1, WordBits - 1} }
NonceResponses == {Err("rpc")} \cup {Ok(w) : w \in BitmapWords}

(***************************************************************************)
(* The per-order stages of FillerTask.                                     *)
(***************************************************************************)
\* nobody holds the MutexGuard of filled_orders
NoGuard == "none"

\* mutant: the guard is bound to a local that outlives the statement
guard_kept_by(holder) == holder

\* self.filled_orders.lock().unwrap().f(..): the guard is a temporary of the
\* statement and is dropped at its end, before the function's next await
guard_after_statement(holder) == NoGuard

order_hash(h) == h

\* mutant: the lookup result is ignored
not_in_filled_cache_never_hits(cache, h) == Ok(Some(h))

not_in_filled_cache(cache, h) ==
    LET cached == lru_contains(cache, order_hash(h)) IN
    IF cached THEN Ok(None) ELSE Ok(Some(h))

\* mutant: the pricing error is propagated with `?`
profitable_propagates(h) ==
    LET r == is_profitable(OrderPool[h]) IN
    IF r = Ok(TRUE) THEN Ok(Some(h))
    ELSE IF r = Ok(FALSE) THEN Ok(None)
    ELSE r

profitable(h) ==
    LET r == is_profitable(OrderPool[h]) IN
    IF r = Ok(TRUE) THEN Ok(Some(h))
    ELSE IF r = Ok(FALSE) THEN Ok(None)
    ELSE Ok(None)

\* the nonceBitmap call unfilled() issues for order h
nonce_call(h) ==
    [order |-> h, owner |-> OrderPool[h].owner,
     word_pos |-> word_pos(OrderPool[h].nonce)]

\* mutant: a failed read is recorded as filled
unfilled_caches_on_error(cache, h, resp) ==
    IF resp.tag = "Err" \/ is_filled(resp.value, OrderPool[h].nonce)
    THEN [cache |-> lru_put(cache, order_hash(h)), out |-> None]
    ELSE [cache |-> cache, out |-> Some(h)]

\* mutant: a failed read drops the order (fail closed)
unfilled_fail_closed(cache, h, resp) ==
    IF resp.tag = "Err" THEN [cache |-> cache, out |-> None]
    ELSE IF is_filled(resp.value, OrderPool[h].nonce)
         THEN [cache |-> lru_put(cache, order_hash(h)), out |-> None]
         ELSE [cache |-> cache, out |-> Some(h)]

\* mutant: after a failed read the order is dropped if the cache is not
\* empty, as it is once a sibling has been found filled
unfilled_error_follows_siblings(cache, h, resp) ==
    IF resp.tag = "Err"
    THEN [cache |-> cache, out |-> IF cache = <<>> THEN Some(h) ELSE None]
    ELSE IF is_filled(resp.value, OrderPool[h].nonce)
         THEN [cache |-> lru_put(cache, order_hash(h)), out |-> None]
         ELSE [cache |-> cache, out |-> Some(h)]

\* unfilled() once its call returned resp: the cache afterwards and the output
unfilled(cache, h, resp) ==
    IF resp.tag = "Err" THEN [cache |-> cache, out |-> Some(h)]
    ELSE IF is_filled(resp.value, OrderPool[h].nonce)
         THEN [cache |-> lru_put(cache, order_hash(h)), out |-> None]
         ELSE [cache |-> cache, out |-> Some(h)]

\* mutant: survivors are collected back to front
RECURSIVE flatten_reversed(_)
flatten_reversed(outs) ==
    IF outs = <<>> THEN <<>>
    ELSE IF Head(outs).tag = "Some"
         THEN flatten_reversed(Tail(outs)) \o <<Head(outs).order>>
    ELSE flatten_reversed(Tail(outs))

\* .into_iter().flatten().collect() over the outputs of join_all
RECURSIVE flatten(_)
flatten(outs) ==
    IF outs = <<>> THEN <<>>
    ELSE IF Head(outs).tag = "Some" THEN <<Head(outs).order>> \o flatten(Tail(outs))
    ELSE flatten(Tail(outs))

\* mutant: the join resumes on the first output
join_any_ready(outs) == \E j \in 1 .. Len(outs) : outs[j] # Pending

\* join_all(...).await is ready once every future has produced its output
join_all_ready(outs) == \A j \in 1 .. Len(outs) : outs[j] # Pending

\* mutant: the emptiness check before the submission is missing
fill_calls_unchecked(orders_to_fill) == <<orders_to_fill>>

\* the filler.fill calls process_orders makes for orders_to_fill
fill_calls(orders_to_fill) ==
    IF orders_to_fill = <<>> THEN <<>> ELSE <<orders_to_fill>>

Range(seq) == {seq[i] : i \in 1 .. Len(seq)}

(***************************************************************************)
(* State machine                                                           *)
(***************************************************************************)
Init ==
    /\ filled_orders = <<>>
    /\ pc = "waiting"
    /\ cur = NoOrder
    /\ orders_count = 0
    /\ candidates = <<>>
    /\ calls = <<>>
    /\ reads = <<>>
    /\ results = <<>>
    /\ fills = <<>>
    /\ ret = "none"
    /\ log = "none"
    /\ fetched = <<>>
    /\ hits = {}
    /\ checked = {}
    /\ evaluated = [h \in {} |-> None]
    /\ cache_at_tick = <<>>
    /\ out_of_order = FALSE
    /\ observed_set = {}
    /\ filled_orders_guard = NoGuard

\* mutant: run_loop leaves its loop body for good when process_orders fails
Abort_stops_loop ==
    /\ candidates' = <<>>
    /\ ret' = "Err"
    /\ log' = "error processing orders"
    /\ pc' = "failed"

\* process_orders returns Err(e) to run_loop, which logs it
Abort ==
    /\ candidates' = <<>>
    /\ ret' = "Err"
    /\ log' = "error processing orders"
    /\ pc' = "waiting"

\* run_loop: interval.tick() fires and process_orders starts
Tick ==
    /\ pc = "waiting"
    /\ pc' = "stream"
    /\ cur' = NoOrder
    /\ orders_count' = 0
    /\ candidates' = <<>>
    /\ calls' = <<>>
    /\ reads' = <<>>
    /\ results' = <<>>
    /\ fills' = <<>>
    /\ ret' = "running"
    /\ log' = "none"
    /\ fetched' = <<>>
    /\ hits' = {}
    /\ checked' = {}
    /\ evaluated' = [h \in {} |-> None]
    /\ cache_at_tick' = filled_orders
    /\ out_of_order' = FALSE
    /\ UNCHANGED <<filled_orders, observed_set,
                   filled_orders_guard>>

\* get_orders yields Ok(order): inspect_ok counts it.  The pool is keyed by
\* order hash, so one pass of the stream yields each order at most once.
StreamNext(h) ==
    /\ pc = "stream"
    /\ h \notin Range(fetched)
    /\ orders_count' = orders_count + 1
    /\ cur' = h
    /\ fetched' = Append(fetched, h)
    /\ pc' = "cache"
    /\ UNCHANGED <<filled_orders, candidates, calls, reads, results, fills,
                   ret, log, hits, checked, evaluated, cache_at_tick,
                   out_of_order, observed_set,
                   filled_orders_guard>>

\* try_filter_map(not_in_filled_cache)
CacheCheck ==
    /\ pc = "cache"
    /\ filled_orders_guard = NoGuard
    /\ filled_orders_guard' = guard_after_statement("not_in_filled_cache")
    /\ filled_orders' = lru_after_contains(filled_orders, order_hash(cur))
    /\ checked' = checked \cup {cur}
    /\ LET r == not_in_filled_cache(filled_orders, cur) IN
       IF r.tag = "Err"
       THEN /\ Abort
            /\ UNCHANGED <<hits, cur>>
       ELSE IF r.value.tag = "None"
       THEN /\ hits' = hits \cup {cur}
            /\ cur' = NoOrder
            /\ pc' = "stream"
            /\ UNCHANGED <<candidates, ret, log>>
       ELSE /\ hits' = hits
            /\ cur' = r.value.order
            /\ pc' = "profit"
            /\ UNCHANGED <<candidates, ret, log>>
    /\ UNCHANGED <<orders_count, calls, reads, results, fills,
                   fetched, evaluated, cache_at_tick, out_of_order,
                   observed_set>>

\* try_filter_map(profitable), try_collect pushes a survivor
ProfitCheck ==
    /\ pc = "profit"
    /\ evaluated' = [h \in DOMAIN evaluated \cup {cur} |->
                        IF h = cur THEN is_profitable(OrderPool[cur])
                        ELSE evaluated[h]]
    /\ LET r == profitable(cur) IN
       IF r.tag = "Err"
       THEN /\ Abort
            /\ cur' = cur
       ELSE /\ candidates' = IF r.value.tag = "Some"
                             THEN Append(candidates, r.value.order)
                             ELSE candidates
            /\ cur' = NoOrder
            /\ pc' = "stream"
            /\ UNCHANGED <<ret, log>>
    /\ UNCHANGED <<filled_orders, orders_count, calls, reads, results, fills,
                   fetched, hits, checked, cache_at_tick, out_of_order,
                   observed_set,
                   filled_orders_guard>>

\* mutant: the Err item is skipped and the stream goes on
StreamErr_skipped ==
    /\ pc = "stream"
    /\ StreamFailure \notin Range(fetched)
    /\ fetched' = Append(fetched, StreamFailure)
    /\ UNCHANGED <<filled_orders, pc, cur, orders_count, candidates, calls,
                   reads, results, fills, ret, log, hits, checked, evaluated,
                   cache_at_tick, out_of_order, observed_set,
                   filled_orders_guard>>

\* get_orders yields Err: try_collect stops, `?` returns, run_loop logs it
StreamErr ==
    /\ pc = "stream"
    /\ fetched' = Append(fetched, StreamFailure)
    /\ Abort
    /\ UNCHANGED <<filled_orders, cur, orders_count, calls, reads, results,
                   fills, hits, checked, evaluated, cache_at_tick,
                   out_of_order, observed_set,
                   filled_orders_guard>>

\* the stream ends: the emptiness check, then join_all polls every unfilled()
\* up to its nonceBitmap call
StreamEnd ==
    /\ pc = "stream"
    /\ IF candidates = <<>>
       THEN /\ log' = IF orders_count = 0
                      THEN "no orders fetched from transaction cache"
                      ELSE "no profitable, unfilled orders found"
            /\ ret' = "Ok"
            /\ pc' = "waiting"
            /\ UNCHANGED <<calls, reads, results>>
       ELSE /\ calls' = [i \in 1 .. Len(candidates) |-> nonce_call(candidates[i])]
            /\ reads' = [i \in 1 .. Len(candidates) |-> Pending]
            /\ results' = [i \in 1 .. Len(candidates) |-> Pending]
            /\ pc' = "nonce"
            /\ UNCHANGED <<ret, log>>
    /\ UNCHANGED <<filled_orders, cur, orders_count, candidates, fills,
                   fetched, hits, checked, evaluated, cache_at_tick,
                   out_of_order, observed_set,
                   filled_orders_guard>>

\* the read of spec section 4.4: bit (nonce mod 256) of the returned word
BitObservedSet(h, resp) ==
    resp.tag = "Ok" /\ (OrderPool[h].nonce % WordBits) \in resp.value

\* the nonceBitmap call of candidate i returns; when it is the last one,
\* join_all completes and process_orders goes on to the fill call
NonceResponse(i, resp) ==
    /\ pc = "nonce"
    /\ i \in 1 .. Len(candidates)
    /\ results[i] = Pending
    /\ LET u == unfilled(filled_orders, candidates[i], resp)
           outs == [results EXCEPT ![i] = u.out]
           orders_to_fill == flatten(outs)
       IN /\ filled_orders' = u.cache
          /\ results' = outs
          /\ reads' = [reads EXCEPT ![i] = resp]
          /\ observed_set' = IF BitObservedSet(candidates[i], resp)
                             THEN observed_set \cup {order_hash(candidates[i])}
                             ELSE observed_set
          /\ IF ~join_all_ready(outs)
             THEN UNCHANGED <<pc, fills, ret, log>>
             ELSE IF fill_calls(orders_to_fill) = <<>>
                  THEN /\ log' = "no unfilled orders after nonce check"
                       /\ ret' = "Ok"
                       /\ pc' = "waiting"
                       /\ fills' = fills
                  ELSE /\ fills' = fills \o fill_calls(orders_to_fill)
                       /\ pc' = "fill"
                       /\ UNCHANGED <<ret, log>>
    /\ IF resp.tag = "Ok" /\ is_filled(resp.value, OrderPool[candidates[i]].nonce)
       THEN /\ filled_orders_guard = NoGuard
            /\ filled_orders_guard' = guard_after_statement("unfilled")
       ELSE UNCHANGED filled_orders_guard
    /\ out_of_order' = (out_of_order \/ \E j \in 1 .. (i - 1) : results[j] = Pending)
    /\ UNCHANGED <<cur, orders_count, candidates, calls, fetched, hits,
                   checked, evaluated, cache_at_tick>>

\* mutant: a failed submission is returned with `?`
FillResponse_propagates(ok) ==
    /\ pc = "fill"
    /\ log' = IF ok THEN "successfully submitted fill bundle"
              ELSE "error processing orders"
    /\ ret' = IF ok THEN "Ok" ELSE "Err"
    /\ pc' = "waiting"
    /\ UNCHANGED <<filled_orders, cur, orders_count, candidates, calls, reads,
                   results, fills, fetched, hits, checked, evaluated,
                   cache_at_tick, out_of_order, observed_set,
                   filled_orders_guard>>

\* filler.fill returns
FillResponse(ok) ==
    /\ pc = "fill"
    /\ log' = IF ok THEN "successfully submitted fill bundle"
              ELSE "failed to fill orders"
    /\ ret' = "Ok"
    /\ pc' = "waiting"
    /\ UNCHANGED <<filled_orders, cur, orders_count, candidates, calls, reads,
                   results, fills, fetched, hits, checked, evaluated,
                   cache_at_tick, out_of_order, observed_set,
                   filled_orders_guard>>

allvars == <<vars, svars, ovars>>

\* the three targets of the startup connections (ConnectionTarget::as_str)
Targets == {"host-provider", "rollup-provider", "transaction-cache"}
\* no error (last_err of a target none of whose attempts failed)
NoError == [variant |-> "none"]

\* initialize returned Ok(task) after one successful attempt per target and
\* main went on to run the task
StartupDone ==
    /\ init_pc = "done"
    /\ conn = [t \in Targets |-> "connected"]
    /\ attempts = [t \in Targets |-> 1]
    /\ retry_counter = [t \in Targets |-> 0]
    /\ warned = [t \in Targets |-> 0]
    /\ last_err = [t \in Targets |-> NoError]
    /\ init_ret = "Ok"
    /\ main_ret = "run"

\* the quoting client's locals before it has grouped anything
NoGroups ==
    [inputs |-> <<>>, outputs |-> <<>>, round1_results |-> <<>>,
     splits |-> <<>>, estimate |-> None]

\* compute_output_splits is not being called
SplitsIdle ==
    /\ s_input_amount = 0
    /\ s_quotes = <<>>
    /\ s_splits = Pending
    /\ s_round2 = <<>>
    /\ s_cost = Pending
    /\ s_profitable = Pending

\* no pricing client is at work outside the pipeline
PricingIdle ==
    /\ q_order = [permitted |-> <<>>, outputs |-> <<>>]
    /\ q_static = Pending
    /\ q_fixed = Pending
    /\ q_radius = Pending
    /\ q_round = "idle"
    /\ q_groups = NoGroups
    /\ q_requests = <<>>
    /\ q_quotes = <<>>
    /\ q_max_loss = 0
    /\ SplitsIdle

\* The pipeline on its own: the loop is running, never cancelled, and every
\* tick() is ready; the scheduler is specified by SpecSched below.
SchedIdle ==
    /\ now = 0
    /\ start_time = 0
    /\ deadline = 0
    /\ cancelled = FALSE
    /\ task = "running"
    /\ run_ret = "none"
    /\ cycles = 0
    /\ started_at = NoTime
    /\ prev_started_at = NoTime
    /\ cancel_pc = "none"
    /\ ended_cancelled = FALSE
    /\ prev_ret = "none"

Next ==
    \/ Tick /\ UNCHANGED <<svars, ovars>>
    \/ \E h \in Hashes : StreamNext(h) /\ UNCHANGED <<svars, ovars>>
    \/ CacheCheck /\ UNCHANGED <<svars, ovars>>
    \/ ProfitCheck /\ UNCHANGED <<svars, ovars>>
    \/ StreamErr /\ UNCHANGED <<svars, ovars>>
    \/ StreamEnd /\ UNCHANGED <<svars, ovars>>
    \/ \E i \in 1 .. Len(OrderPool), resp \in NonceResponses :
           NonceResponse(i, resp) /\ UNCHANGED <<svars, ovars>>
    \/ \E ok \in BOOLEAN : FillResponse(ok) /\ UNCHANGED <<svars, ovars>>

\* startup succeeded and the loop was spawned
InitRunning ==
    /\ Init
    /\ SchedIdle
    /\ StartupDone
    /\ PricingIdle

Spec == InitRunning /\ [][Next]_allvars

(***************************************************************************)
(* The scheduler: FillerTask::run supervising FillerTask::run_loop.        *)
(* The loop owns a tokio Interval anchored at the first submission anchor  *)
(* (instant 0 of the model) with MissedTickBehavior::Skip.                 *)
(***************************************************************************)
\* MissedTickBehavior::Skip.next_timeout(timeout, now, period)
skip_next_timeout(timeout, t) ==
    t + SlotDuration - ((t - timeout) % SlotDuration)

\* Interval::poll_tick: the deadline that follows a tick scheduled for
\* timeout and delivered at t (the 5 ms tolerance is below one time unit)
next_deadline(timeout, t) ==
    IF t > timeout THEN skip_next_timeout(timeout, t)
    ELSE timeout + SlotDuration

\* select! { biased; cancelled() => ..., tick() => ... }: the branch taken
select_unbiased_tick(c, tick_ready) == tick_ready
select_cancelled(c) == c
select_tick(c, tick_ready) == ~c /\ tick_ready

\* the orders the pool holds while the scheduler is examined
SchedHashes == {1}

\* run: tokio::spawn(self.run_loop()); run_loop builds the interval from
\* submission_anchor_instant(), which lies in the past
InitSched ==
    /\ Init
    /\ StartupDone
    /\ PricingIdle
    /\ now \in 0 .. SlotDuration + 1
    /\ start_time = now
    /\ deadline = 0
    /\ cancelled = FALSE
    /\ task = "running"
    /\ run_ret = "none"
    /\ cycles = 0
    /\ started_at = NoTime
    /\ prev_started_at = NoTime
    /\ cancel_pc = "none"
    /\ ended_cancelled = FALSE
    /\ prev_ret = "none"

\* the loop is parked in select! and one of its branches is ready
LoopRunnable ==
    /\ task = "running"
    /\ pc = "waiting"
    /\ (cancelled \/ now >= deadline)

\* time passes; a parked loop whose branch is ready is woken first
Advance ==
    /\ task = "running"
    /\ ~LoopRunnable
    /\ now < MaxTime
    /\ now' = now + 1
    /\ UNCHANGED <<start_time, deadline, cancelled, task, run_ret, cycles, started_at,
                   prev_started_at, cancel_pc, ended_cancelled>>
    /\ UNCHANGED <<vars, prev_ret>>

\* somebody calls cancellation_token.cancel() (signal handler, healthcheck)
Cancel ==
    /\ ~cancelled
    /\ run_ret = "none"
    /\ cancelled' = TRUE
    /\ cancel_pc' = IF task = "running" THEN pc ELSE "ended"
    /\ UNCHANGED <<now, start_time, deadline, task, run_ret, cycles, started_at,
                   prev_started_at, ended_cancelled>>
    /\ UNCHANGED <<vars, prev_ret>>

\* run_loop: the tick branch of select!, process_orders starts
LoopTick ==
    /\ task = "running"
    /\ select_tick(cancelled, now >= deadline)
    /\ Tick
    /\ deadline' = next_deadline(deadline, now)
    /\ cycles' = IF cycles < 2 THEN cycles + 1 ELSE cycles
    /\ started_at' = now
    /\ prev_started_at' = started_at
    /\ prev_ret' = ret
    /\ UNCHANGED <<now, start_time, cancelled, task, run_ret, cancel_pc,
                   ended_cancelled>>

LoopExit_any_time ==
    /\ task = "running"
    /\ select_cancelled(cancelled)
    /\ task' = "returned"
    /\ ended_cancelled' = cancelled
    /\ UNCHANGED <<now, start_time, deadline, cancelled, run_ret, cycles, started_at,
                   prev_started_at, cancel_pc>>
    /\ UNCHANGED <<vars, prev_ret>>

\* run_loop: the cancelled branch of select!, break
LoopExit ==
    /\ task = "running"
    /\ pc = "waiting"
    /\ select_cancelled(cancelled)
    /\ task' = "returned"
    /\ ended_cancelled' = cancelled
    /\ UNCHANGED <<now, start_time, deadline, cancelled, run_ret, cycles, started_at,
                   prev_started_at, cancel_pc>>
    /\ UNCHANGED <<vars, prev_ret>>

\* process_orders (or anything it awaits) panics: the task unwinds
LoopPanic ==
    /\ task = "running"
    /\ pc # "waiting"
    /\ task' = "panicked"
    /\ ended_cancelled' = cancelled
    /\ UNCHANGED <<now, start_time, deadline, cancelled, run_ret, cycles, started_at,
                   prev_started_at, cancel_pc>>
    /\ UNCHANGED <<vars, prev_ret>>

\* mutant: run matches the JoinError before it reads the signal
RunObserve_result_first ==
    /\ task # "running"
    /\ run_ret = "none"
    /\ IF task = "panicked"
       THEN /\ run_ret' = "panic in filler task"
            /\ cancelled' = TRUE
       ELSE IF cancelled
       THEN /\ run_ret' = "Ok"
            /\ UNCHANGED cancelled
       ELSE /\ cancelled' = TRUE
            /\ run_ret' = "filler task exited without cancellation"
    /\ UNCHANGED <<now, start_time, deadline, task, cycles, started_at, prev_started_at,
                   cancel_pc, ended_cancelled>>
    /\ UNCHANGED <<vars, prev_ret>>

\* run: the JoinHandle resolves, is_cancelled() is read, the result matched
RunObserve ==
    /\ task # "running"
    /\ run_ret = "none"
    /\ IF cancelled
       THEN /\ run_ret' = "Ok"
            /\ UNCHANGED cancelled
       ELSE /\ cancelled' = TRUE
            /\ run_ret' = IF task = "returned"
                          THEN "filler task exited without cancellation"
                          ELSE "panic in filler task"
    /\ UNCHANGED <<now, start_time, deadline, task, cycles, started_at, prev_started_at,
                   cancel_pc, ended_cancelled>>
    /\ UNCHANGED <<vars, prev_ret>>

\* a step of the cycle in flight
CycleStep ==
    /\ task = "running"
    /\ \/ \E h \in SchedHashes : StreamNext(h)
       \/ CacheCheck
       \/ ProfitCheck
       \/ StreamErr
       \/ StreamEnd
       \/ \E i \in 1 .. Len(OrderPool), resp \in NonceResponses :
              NonceResponse(i, resp)
       \/ \E ok \in BOOLEAN : FillResponse(ok)
    /\ UNCHANGED svars

NextSched ==
    \/ Advance /\ UNCHANGED ovars
    \/ Cancel /\ UNCHANGED ovars
    \/ LoopTick /\ UNCHANGED ovars
    \/ LoopExit /\ UNCHANGED ovars
    \/ LoopPanic /\ UNCHANGED ovars
    \/ RunObserve /\ UNCHANGED ovars
    \/ /\ task = "running"
       /\ \E h \in SchedHashes : StreamNext(h)
       /\ UNCHANGED <<svars, ovars>>
    \/ task = "running" /\ CacheCheck /\ UNCHANGED <<svars, ovars>>
    \/ task = "running" /\ ProfitCheck /\ UNCHANGED <<svars, ovars>>
    \/ task = "running" /\ StreamErr /\ UNCHANGED <<svars, ovars>>
    \/ task = "running" /\ StreamEnd /\ UNCHANGED <<svars, ovars>>
    \/ /\ task = "running"
       /\ \E i \in 1 .. Len(OrderPool), resp \in NonceResponses :
              NonceResponse(i, resp)
       /\ UNCHANGED <<svars, ovars>>
    \/ /\ task = "running"
       /\ \E ok \in BOOLEAN : FillResponse(ok)
       /\ UNCHANGED <<svars, ovars>>

SpecSched == InitSched /\ [][NextSched]_allvars

\* the runtime polls a woken task: a loop whose cancelled branch is ready
\* takes it, and run resumes once the JoinHandle has resolved
SpecSchedFair ==
    /\ SpecSched
    /\ WF_allvars(LoopExit /\ UNCHANGED ovars)
    /\ WF_allvars(RunObserve /\ UNCHANGED ovars)

(***************************************************************************)
(* Startup: main -> FillerTask::initialize -> the three connections, each  *)
(* a backon Retry around its connect closure                               *)
(* (src/src/filler_task/initialization.rs).                                *)
(***************************************************************************)
\* RpcError<TransportErrorKind>; retry is what the library's is_retry_err()
\* answers for an error response or a transport error kind
TransportErrors ==
    {[variant |-> "ErrorResp", retry |-> TRUE],
     [variant |-> "ErrorResp", retry |-> FALSE],
     [variant |-> "NullResp", retry |-> FALSE],
     [variant |-> "UnsupportedFeature", retry |-> FALSE],
     [variant |-> "LocalUsageError", retry |-> FALSE],
     [variant |-> "SerError", retry |-> FALSE],
     [variant |-> "DeserError", retry |-> FALSE],
     [variant |-> "Transport", retry |-> TRUE],
     [variant |-> "Transport", retry |-> FALSE]}

\* reqwest::Error of the HEAD probe: what is_timeout(), is_connect(),
\* is_request() and status() answer (NoStatus: status() is None)
NoStatus == 0
ReqwestError(t, c, r, st) ==
    [variant |-> "reqwest", is_timeout |-> t, is_connect |-> c,
     is_request |-> r, status |-> st]
ReqwestErrors ==
    {ReqwestError(TRUE, FALSE, TRUE, NoStatus),
     ReqwestError(FALSE, TRUE, TRUE, NoStatus),
     ReqwestError(FALSE, FALSE, TRUE, NoStatus),
     ReqwestError(FALSE, FALSE, FALSE, NoStatus),
     ReqwestError(FALSE, FALSE, FALSE, 404),
     ReqwestError(FALSE, FALSE, FALSE, 429),
     ReqwestError(FALSE, FALSE, FALSE, 500),
     ReqwestError(FALSE, FALSE, FALSE, 503)}

\* the errors an attempt of target t can end with
Errors(t) == IF t = "transaction-cache" THEN ReqwestErrors ELSE TransportErrors

is_transient_transport_error(err) ==
    CASE err.variant = "ErrorResp" -> err.retry
      [] err.variant \in {"NullResp", "UnsupportedFeature", "LocalUsageError",
                          "SerError", "DeserError"} -> FALSE
      [] err.variant = "Transport" -> err.retry

\* StatusCode::is_server_error
is_server_error(st) == 500 <= st /\ st < 600

is_transient_reqwest_error(err) ==
    IF err.is_timeout \/ err.is_connect \/ err.is_request THEN TRUE
    ELSE IF err.status # NoStatus
         THEN is_server_error(err.status) \/ err.status = 429
         ELSE FALSE

when_always(t, err) == TRUE

\* the predicate each target's Retry is built with: .when(..)
when(t, err) ==
    IF t = "transaction-cache" THEN is_transient_reqwest_error(err)
    ELSE is_transient_transport_error(err)

\* backoff(): ExponentialBuilder ... .without_max_times(); does the backoff
\* yield a delay after n failed attempts
backoff_with_max_times(n) == n < 2
backoff_next(n) == TRUE

record_connection_attempt_any(counter, t) ==
    [u \in Targets |-> counter[u] + 1]

\* metrics::record_connection_attempt(target): counter!(.., "target" => ..)
record_connection_attempt(counter, t) ==
    [counter EXCEPT ![t] = @ + 1]

\* select! { biased; cancelled() => bail, result = try_join!(..) => .. }:
\* is the connections' branch polled
select_result_unbiased(c) == TRUE
select_result(c) == ~c

\* main before FillerTask::initialize; the scheduler is not running yet
InitStartup ==
    /\ Init
    /\ PricingIdle
    /\ now = 0
    /\ start_time = 0
    /\ deadline = 0
    /\ cancelled = FALSE
    /\ task = "none"
    /\ run_ret = "none"
    /\ cycles = 0
    /\ started_at = NoTime
    /\ prev_started_at = NoTime
    /\ cancel_pc = "none"
    /\ ended_cancelled = FALSE
    /\ prev_ret = "none"
    /\ init_pc = "signer"
    /\ conn = [t \in Targets |-> "idle"]
    /\ attempts = [t \in Targets |-> 0]
    /\ retry_counter = [t \in Targets |-> 0]
    /\ warned = [t \in Targets |-> 0]
    /\ last_err = [t \in Targets |-> NoError]
    /\ init_ret = "none"
    /\ main_ret = "none"

\* what SpecInit leaves alone: the pipeline and the rest of the scheduler
startup_frame == <<vars, qvars, cvars, now, start_time, deadline, task, run_ret, cycles,
                   started_at, prev_started_at, ended_cancelled, prev_ret>>

\* a signal handler calls cancel() on the token main handed to initialize
CancelStartup ==
    /\ ~cancelled
    /\ main_ret = "none"
    /\ cancelled' = TRUE
    /\ cancel_pc' = init_pc
    /\ UNCHANGED <<ivars, startup_frame>>

\* initialize: connect_signer(..).await?
ConnectSigner(ok) ==
    /\ init_pc = "signer"
    /\ IF ok
       THEN /\ init_pc' = "connecting"
            /\ UNCHANGED init_ret
       ELSE /\ init_pc' = "done"
            /\ init_ret' = "signer error"
    /\ UNCHANGED <<conn, attempts, retry_counter, warned, last_err, main_ret,
                   cancelled, cancel_pc, startup_frame>>

\* the first poll of try_join!: every connect future calls its closure
StartConnections ==
    /\ init_pc = "connecting"
    /\ select_result(cancelled)
    /\ \A t \in Targets : conn[t] = "idle"
    /\ conn' = [t \in Targets |-> "attempting"]
    /\ attempts' = [t \in Targets |-> 1]
    /\ UNCHANGED <<init_pc, retry_counter, warned, last_err, init_ret,
                   main_ret, cancelled, cancel_pc, startup_frame>>

\* select!: the cancelled branch; the connect futures are dropped as they are
InitCancelled ==
    /\ init_pc = "connecting"
    /\ select_cancelled(cancelled)
    /\ init_pc' = "done"
    /\ init_ret' = "initialization cancelled"
    /\ UNCHANGED <<conn, attempts, retry_counter, warned, last_err, main_ret,
                   cancelled, cancel_pc, startup_frame>>

\* an attempt of target t returns Ok: Retry returns it; try_join! completes
\* when it was the last one
AttemptOk(t) ==
    /\ init_pc = "connecting"
    /\ select_result(cancelled)
    /\ conn[t] = "attempting"
    /\ conn' = [conn EXCEPT ![t] = "connected"]
    /\ IF \A u \in Targets \ {t} : conn[u] = "connected"
       THEN /\ init_pc' = "done"
            /\ init_ret' = "Ok"
       ELSE UNCHANGED <<init_pc, init_ret>>
    /\ UNCHANGED <<attempts, retry_counter, warned, last_err, main_ret,
                   cancelled, cancel_pc, startup_frame>>

\* mutant: the connections are joined with join!, which waits for all three
AttemptErr_joined(t, err) ==
    /\ init_pc = "connecting"
    /\ select_result(cancelled)
    /\ conn[t] = "attempting"
    /\ last_err' = [last_err EXCEPT ![t] = err]
    /\ IF when(t, err) /\ backoff_next(attempts[t])
       THEN /\ attempts[t] < MaxAttempts
            /\ retry_counter' = record_connection_attempt(retry_counter, t)
            /\ warned' = [warned EXCEPT ![t] = @ + 1]
            /\ conn' = [conn EXCEPT ![t] = "backoff"]
            /\ UNCHANGED <<init_pc, init_ret>>
       ELSE /\ conn' = [conn EXCEPT ![t] = "failed"]
            /\ IF \A u \in Targets \ {t} : conn[u] \in {"connected", "failed"}
               THEN /\ init_pc' = "done"
                    /\ init_ret' = "initialization failure"
               ELSE UNCHANGED <<init_pc, init_ret>>
            /\ UNCHANGED <<retry_counter, warned>>
    /\ UNCHANGED <<attempts, main_ret, cancelled, cancel_pc, startup_frame>>

\* an attempt of target t returns Err(err): Retry consults when(err) and the
\* backoff; either notify runs and the sleep starts, or the error is
\* returned, which makes try_join! and initialize return it
AttemptErr(t, err) ==
    /\ init_pc = "connecting"
    /\ select_result(cancelled)
    /\ conn[t] = "attempting"
    /\ last_err' = [last_err EXCEPT ![t] = err]
    /\ IF when(t, err) /\ backoff_next(attempts[t])
       THEN /\ attempts[t] < MaxAttempts
            /\ retry_counter' = record_connection_attempt(retry_counter, t)
            /\ warned' = [warned EXCEPT ![t] = @ + 1]
            /\ conn' = [conn EXCEPT ![t] = "backoff"]
            /\ UNCHANGED <<init_pc, init_ret>>
       ELSE /\ conn' = [conn EXCEPT ![t] = "failed"]
            /\ init_pc' = "done"
            /\ init_ret' = "initialization failure"
            /\ UNCHANGED <<retry_counter, warned>>
    /\ UNCHANGED <<attempts, main_ret, cancelled, cancel_pc, startup_frame>>

\* the backoff sleep of target t elapses: Retry calls the closure again
RetryAttempt(t) ==
    /\ init_pc = "connecting"
    /\ select_result(cancelled)
    /\ conn[t] = "backoff"
    /\ conn' = [conn EXCEPT ![t] = "attempting"]
    /\ attempts' = [attempts EXCEPT ![t] = @ + 1]
    /\ UNCHANGED <<init_pc, retry_counter, warned, last_err, init_ret,
                   main_ret, cancelled, cancel_pc, startup_frame>>

\* main: match FillerTask::initialize(..).await
MainObserve ==
    /\ init_pc = "done"
    /\ main_ret = "none"
    /\ main_ret' = IF init_ret = "Ok" THEN "run"
                   ELSE IF cancelled THEN "Ok"
                   ELSE "Err"
    /\ UNCHANGED <<init_pc, conn, attempts, retry_counter, warned, last_err,
                   init_ret, cancelled, cancel_pc, startup_frame>>

NextInit ==
    \/ CancelStartup
    \/ \E ok \in BOOLEAN : ConnectSigner(ok)
    \/ StartConnections
    \/ InitCancelled
    \/ \E t \in Targets : AttemptOk(t)
    \/ \E t \in Targets : \E err \in Errors(t) : AttemptErr(t, err)
    \/ \E t \in Targets : RetryAttempt(t)
    \/ MainObserve

SpecInit == InitStartup /\ [][NextInit]_allvars

\* every attempt ends and every backoff sleep elapses; the runtime polls
\* initialize when its select! has a ready branch
SpecInitFair ==
    /\ SpecInit
    /\ WF_allvars(StartConnections)
    /\ WF_allvars(InitCancelled)
    /\ \A t \in Targets :
          /\ WF_allvars(RetryAttempt(t))
          /\ WF_allvars(AttemptOk(t) \/ \E err \in Errors(t) : AttemptErr(t, err))


(***************************************************************************)
(* Checked U256 arithmetic (ruint): NoU256 is Option::None.                *)
(***************************************************************************)
NoU256 == -1
checked_add(a, b) == IF a + b > UMax THEN NoU256 ELSE a + b
\* checked_sub clamping at zero, checked_mul wrapping
checked_sub_saturating(a, b) == IF b > a THEN 0 ELSE a - b
checked_mul_wrapping(a, b) == (a * b) % UMod
checked_sub(a, b) == IF b > a THEN NoU256 ELSE a - b
checked_mul(a, b) == IF a # 0 /\ b > UMax \div a THEN NoU256 ELSE a * b
\* checked_div rounding up; checked_div giving zero for a zero divisor
checked_div_round_up(a, b) == IF b = 0 THEN NoU256 ELSE (a + b - 1) \div b
checked_div_zero_is_zero(a, b) == IF b = 0 THEN 0 ELSE a \div b
checked_div(a, b) == IF b = 0 THEN NoU256 ELSE a \div b
\* Option::and_then, Option::ok_or
and_then(x, F(_)) == IF x = NoU256 THEN NoU256 ELSE F(x)
ok_or(x, e) == IF x = NoU256 THEN Err(e) ELSE Ok(x)

RECURSIVE checked_pow(_, _)
checked_pow(b, e) ==
    IF e = 0 THEN 1
    ELSE and_then(checked_pow(b, e - 1), LAMBDA x : checked_mul(x, b))

\* an order as the pricing clients read it: permitted is a list of
\* TokenPermissions, outputs a list of Output
TokenPermissions(token, amount) == [token |-> token, amount |-> amount]
Output(token, amount, chainId) ==
    [token |-> token, amount |-> amount, chainId |-> chainId]
amounts_of(items) == [i \in 1 .. Len(items) |-> items[i].amount]
\* the order as StaticPricingClient reads it: the amounts only
static_order(order) ==
    [permitted |-> amounts_of(order.permitted),
     outputs |-> amounts_of(order.outputs)]

(***************************************************************************)
(* FixedPricingClient (src/src/fixed_pricing_client.rs).  The token table  *)
(* is scaled: usdc lacks 2 decimals to 18, wbtc 1, weth and native none.   *)
(***************************************************************************)
token_info ==
    ("usdc" :> [decimals |-> 16, price_usd |-> 1]) @@
    ("weth" :> [decimals |-> 18, price_usd |-> 3]) @@
    ("wbtc" :> [decimals |-> 17, price_usd |-> 6]) @@
    ("native" :> [decimals |-> 18, price_usd |-> 1])

\* FixedPricingError / RadiusPricingError values
PricingError(kind) == [kind |-> kind]
UnknownToken(token) == [kind |-> "UnknownToken", token |-> token]

\* try_sum valuing a token absent from the table at zero
try_sum_unknown_is_zero(running_total, token, amount) ==
    IF token \notin DOMAIN token_info THEN Ok(running_total)
    ELSE LET info == token_info[token]
             exponent == checked_sub(18, info.decimals)
             scale == and_then(exponent, LAMBDA e : checked_pow(10, e))
             multiplier == and_then(scale,
                               LAMBDA sc : checked_mul(info.price_usd, sc))
             normalized_amount == and_then(multiplier,
                               LAMBDA m : checked_mul(amount, m))
         IN ok_or(and_then(normalized_amount,
                           LAMBDA n : checked_add(running_total, n)),
                  PricingError("Overflow"))

\* the closure try_sum of is_acceptable
try_sum(running_total, token, amount) ==
    IF token \notin DOMAIN token_info THEN Err(UnknownToken(token))
    ELSE LET info == token_info[token]
             exponent == checked_sub(18, info.decimals)
             scale == and_then(exponent, LAMBDA e : checked_pow(10, e))
             multiplier == and_then(scale,
                               LAMBDA sc : checked_mul(info.price_usd, sc))
             normalized_amount == and_then(multiplier,
                               LAMBDA m : checked_mul(amount, m))
         IN ok_or(and_then(normalized_amount,
                           LAMBDA n : checked_add(running_total, n)),
                  PricingError("Overflow"))

\* Iterator::try_fold(U256::ZERO, try_sum) over the items from the i-th on
RECURSIVE try_fold_sum(_, _, _)
try_fold_sum(items, i, acc) ==
    IF i > Len(items) THEN Ok(acc)
    ELSE LET r == try_sum(acc, items[i].token, items[i].amount) IN
         IF r.tag = "Err" THEN r
         ELSE try_fold_sum(items, i + 1, r.value)

\* is_acceptable accepting only an input value strictly above the bound
is_acceptable_strict(order, max_loss_percent) ==
    IF order.permitted = <<>> THEN Err(PricingError("NoInputs"))
    ELSE IF order.outputs = <<>> THEN Err(PricingError("NoOutputs"))
    ELSE
    LET normalized_total_input == try_fold_sum(order.permitted, 1, 0) IN
    IF normalized_total_input.tag = "Err" THEN normalized_total_input
    ELSE
    LET normalized_total_output == try_fold_sum(order.outputs, 1, 0) IN
    IF normalized_total_output.tag = "Err" THEN normalized_total_output
    ELSE
    LET lhs == checked_mul(normalized_total_input.value, 100) IN
    IF lhs = NoU256 THEN Err(PricingError("Overflow"))
    ELSE
    LET rhs == and_then(checked_sub(100, max_loss_percent),
                   LAMBDA percent :
                       checked_mul(normalized_total_output.value, percent))
    IN IF rhs = NoU256 THEN Err(PricingError("Overflow"))
       ELSE Ok(lhs > rhs)

\* FixedPricingClient::is_acceptable
is_acceptable(order, max_loss_percent) ==
    IF order.permitted = <<>> THEN Err(PricingError("NoInputs"))
    ELSE IF order.outputs = <<>> THEN Err(PricingError("NoOutputs"))
    ELSE
    LET normalized_total_input == try_fold_sum(order.permitted, 1, 0) IN
    IF normalized_total_input.tag = "Err" THEN normalized_total_input
    ELSE
    LET normalized_total_output == try_fold_sum(order.outputs, 1, 0) IN
    IF normalized_total_output.tag = "Err" THEN normalized_total_output
    ELSE
    LET lhs == checked_mul(normalized_total_input.value, 100) IN
    IF lhs = NoU256 THEN Err(PricingError("Overflow"))
    ELSE
    LET rhs == and_then(checked_sub(100, max_loss_percent),
                   LAMBDA percent :
                       checked_mul(normalized_total_output.value, percent))
    IN IF rhs = NoU256 THEN Err(PricingError("Overflow"))
       ELSE Ok(lhs >= rhs)

(***************************************************************************)
(* RadiusPricingClient (src/src/pricing/radius_client.rs)                  *)
(***************************************************************************)
InputGroup(token, amount) == [token |-> token, amount |-> amount]
OutputGroup(token, chain_id, required) ==
    [token |-> token, chain_id |-> chain_id, required |-> required]

\* estimate_fill_cost: aggregate inputs by token, from the i-th input on
RECURSIVE group_inputs(_, _, _)
group_inputs(permitted, i, groups) ==
    IF i > Len(permitted) THEN Ok(groups)
    ELSE LET input == permitted[i]
             found == {k \in 1 .. Len(groups) : groups[k].token = input.token}
         IN IF found # {}
            THEN LET k == CHOOSE x \in found : TRUE
                     sum == checked_add(groups[k].amount, input.amount)
                 IN IF sum = NoU256 THEN Err(PricingError("Overflow"))
                    ELSE group_inputs(permitted, i + 1,
                                      [groups EXCEPT ![k].amount = sum])
            ELSE group_inputs(permitted, i + 1,
                     Append(groups, InputGroup(input.token, input.amount)))

\* estimate_fill_cost: aggregate outputs by (token, chain_id)
RECURSIVE group_outputs(_, _, _)
group_outputs(outputs, i, groups) ==
    IF i > Len(outputs) THEN Ok(groups)
    ELSE LET output == outputs[i]
             found == {k \in 1 .. Len(groups) :
                          /\ groups[k].token = output.token
                          /\ groups[k].chain_id = output.chainId}
         IN IF found # {}
            THEN LET k == CHOOSE x \in found : TRUE
                     sum == checked_add(groups[k].required, output.amount)
                 IN IF sum = NoU256 THEN Err(PricingError("Overflow"))
                    ELSE group_outputs(outputs, i + 1,
                                       [groups EXCEPT ![k].required = sum])
            ELSE group_outputs(outputs, i + 1,
                     Append(groups, OutputGroup(output.token, output.chainId,
                                                output.amount)))

\* checked_groups without the two limits
checked_groups_unlimited(order) ==
    LET input_groups == group_inputs(order.permitted, 1, <<>>) IN
    IF input_groups.tag = "Err" THEN input_groups
    ELSE
    LET output_groups == group_outputs(order.outputs, 1, <<>>) IN
    IF output_groups.tag = "Err" THEN output_groups
    ELSE Ok([inputs |-> input_groups.value, outputs |-> output_groups.value])

\* the grouping and the limits, once the order is known to be non-empty
checked_groups(order) ==
    LET input_groups == group_inputs(order.permitted, 1, <<>>) IN
    IF input_groups.tag = "Err" THEN input_groups
    ELSE
    LET output_groups == group_outputs(order.outputs, 1, <<>>) IN
    IF output_groups.tag = "Err" THEN output_groups
    ELSE IF Len(output_groups.value) > MAX_SUPPORTED_OUTPUT_GROUPS
    THEN Err([kind |-> "TooManyOutputs", n |-> Len(output_groups.value)])
    ELSE IF Len(input_groups.value) > 1 /\ Len(output_groups.value) > 1
    THEN Err(PricingError("MultipleInputsMultipleOutputs"))
    ELSE Ok([inputs |-> input_groups.value, outputs |-> output_groups.value])

\* radius_groups with the two emptiness checks after the grouping
radius_groups_checks_late(order) ==
    LET g == checked_groups(order) IN
    IF g.tag = "Err" THEN g
    ELSE IF order.permitted = <<>> THEN Err(PricingError("NoInputs"))
    ELSE IF order.outputs = <<>> THEN Err(PricingError("NoOutputs"))
    ELSE g

\* estimate_fill_cost up to its first quote request
radius_groups(order) ==
    IF order.permitted = <<>> THEN Err(PricingError("NoInputs"))
    ELSE IF order.outputs = <<>> THEN Err(PricingError("NoOutputs"))
    ELSE checked_groups(order)

\* checked_sum(values)
RECURSIVE checked_sum(_, _, _)
checked_sum(values, i, sum) ==
    IF i > Len(values) THEN Ok(sum)
    ELSE LET next == checked_add(sum, values[i]) IN
         IF next = NoU256 THEN Err(PricingError("Overflow"))
         ELSE checked_sum(values, i + 1, next)

\* compute_output_splits giving every group the same share
compute_output_splits_equal(input_amount, quotes) ==
    IF quotes = <<>> THEN Ok(<<>>)
    ELSE Ok([i \in 1 .. Len(quotes) |->
               [group |-> quotes[i].group,
                amount |-> input_amount \div Len(quotes)]])

\* compute_output_splits(input_amount, quotes); quotes[i] is
\* [group, quoted]
compute_output_splits(input_amount, quotes) ==
    LET n == Len(quotes)
        weight(i) == and_then(checked_mul(quotes[i].group.required, PRECISION),
                              LAMBDA scaled : checked_div(scaled, quotes[i].quoted))
    IN IF \E i \in 1 .. n : weight(i) = NoU256
       THEN Err(PricingError("Overflow"))
       ELSE
       LET weights == [i \in 1 .. n |-> weight(i)]
           total_weight == checked_sum(weights, 1, 0)
       IN IF total_weight.tag = "Err" THEN total_weight
          ELSE
          LET amount(i) == and_then(checked_mul(input_amount, weights[i]),
                               LAMBDA scaled :
                                   checked_div(scaled, total_weight.value))
          IN IF \E i \in 1 .. n : amount(i) = NoU256
             THEN Err(PricingError("Overflow"))
             ELSE Ok([i \in 1 .. n |->
                        [group |-> quotes[i].group, amount |-> amount(i)]])

\* split_cost, were a split that falls short charged as if it covered
split_cost_unextrapolated(split, round2_out) == split.amount

\* quote_outputs: the cost of one split given its round-2 quote
split_cost(split, round2_out) ==
    IF round2_out >= split.group.required THEN split.amount
    ELSE and_then(checked_mul(split.amount, split.group.required),
                  LAMBDA product : checked_div(product, round2_out))

\* quote_outputs: the loop adding up the costs, from the i-th split on
RECURSIVE total_cost_of(_, _, _, _)
total_cost_of(splits, round2_results, i, total_cost) ==
    IF i > Len(splits) THEN Ok(total_cost)
    ELSE LET cost == split_cost(splits[i], round2_results[i])
             next == and_then(cost, LAMBDA c : checked_add(total_cost, c))
         IN IF next = NoU256 THEN Err(PricingError("Overflow"))
            ELSE total_cost_of(splits, round2_results, i + 1, next)

\* FillCostEstimate of the quoting client
FillCostEstimate(total_input_value, total_output_value) ==
    [estimated_gas |-> 0, estimated_gas_cost |-> 0,
     total_input_value |-> total_input_value,
     total_output_value |-> total_output_value]

\* a request_quote call
QuoteRequest(from_token, to_token, to_chain_id, amount_in, round) ==
    [from_token |-> from_token, to_token |-> to_token,
     to_chain_id |-> to_chain_id, amount_in |-> amount_in, round |-> round]

(***************************************************************************)
(* The pricing clients at work on one order                                *)
(***************************************************************************)
\* all lists of at most n elements of S
SeqsUpTo(S, n) == UNION {[1 .. k -> S] : k \in 0 .. n}

\* the inputs and outputs orders are built from; dai is in no token table
InputItems ==
    {TokenPermissions("usdc", 1), TokenPermissions("usdc", UMax),
     TokenPermissions("weth", 2), TokenPermissions("dai", 1)}
OutputItems ==
    {Output("usdc", 1, "host"), Output("weth", UMax, "host"),
     Output("weth", 1, "rollup"), Output("dai", 1, "host")}
MaxOutputs == MAX_SUPPORTED_OUTPUT_GROUPS + 1
PricingOrders ==
    {[permitted |-> p, outputs |-> o] :
        p \in SeqsUpTo(InputItems, MaxInputs),
        o \in SeqsUpTo(OutputItems, MaxOutputs)}

\* max_loss_percent settings of the fixed-table client
LossPercents == {0, 10, 100, 101, 255}
\* what the quote service can answer: an amount, or an error
QuoteOutcomes ==
    {Ok(0), Ok(2), Ok(UMax), Err(PricingError("ApiError"))}

InitPricing ==
    /\ Init
    /\ SchedIdle
    /\ StartupDone
    /\ q_order \in PricingOrders
    /\ q_static = Pending
    /\ q_fixed = Pending
    /\ q_max_loss = 0
    /\ q_radius = Pending
    /\ q_round = "idle"
    /\ q_groups = NoGroups
    /\ q_requests = <<>>
    /\ q_quotes = <<>>
    /\ SplitsIdle

pricing_frame == <<vars, svars, ivars, cvars>>

\* the order has been handed to no client yet; each behaviour hands it to
\* one of the three, whose calls are independent of one another
Unpriced == q_static = Pending /\ q_fixed = Pending /\ q_round = "idle"

\* StaticPricingClient::is_profitable(order)
PriceStatic ==
    /\ Unpriced
    /\ q_static' = is_profitable(static_order(q_order))
    /\ UNCHANGED <<q_order, q_fixed, q_max_loss, q_radius, q_round, q_groups, q_requests,
                   q_quotes, pricing_frame>>

\* FixedPricingClient::new(.., max_loss_percent).is_acceptable(order)
PriceFixed(max_loss_percent) ==
    /\ Unpriced
    /\ q_max_loss' = max_loss_percent
    /\ q_fixed' = is_acceptable(q_order, max_loss_percent)
    /\ UNCHANGED <<q_order, q_static, q_radius, q_round, q_groups, q_requests,
                   q_quotes, pricing_frame>>

\* the requests of quote_inputs, and of the two rounds of quote_outputs
input_requests(input_groups, output_group) ==
    [i \in 1 .. Len(input_groups) |->
        QuoteRequest(input_groups[i].token, output_group.token,
                     output_group.chain_id, input_groups[i].amount, "inputs")]
round1_requests(input_group, output_groups) ==
    [i \in 1 .. Len(output_groups) |->
        QuoteRequest(input_group.token, output_groups[i].token,
                     output_groups[i].chain_id, input_group.amount, "round1")]
round2_requests(input_group, splits) ==
    [i \in 1 .. Len(splits) |->
        QuoteRequest(input_group.token, splits[i].group.token,
                     splits[i].group.chain_id, splits[i].amount, "round2")]

\* mutant: quote_outputs issues the round-2 requests along with round 1,
\* for the whole input amount
RadiusStart_unphased ==
    /\ Unpriced
    /\ LET g == radius_groups(q_order) IN
       IF g.tag = "Err"
       THEN /\ q_radius' = g
            /\ q_round' = "done"
            /\ UNCHANGED <<q_groups, q_requests, q_quotes>>
       ELSE LET sent == IF Len(g.value.outputs) > 1
                        THEN round1_requests(g.value.inputs[1], g.value.outputs)
                        ELSE input_requests(g.value.inputs, g.value.outputs[1])
                early == IF Len(g.value.outputs) > 1
                         THEN [i \in 1 .. Len(sent) |->
                                  [sent[i] EXCEPT !.round = "round2"]]
                         ELSE <<>>
            IN /\ q_round' = IF Len(g.value.outputs) > 1 THEN "round1"
                             ELSE "inputs"
               /\ q_groups' = [NoGroups EXCEPT !.inputs = g.value.inputs,
                                               !.outputs = g.value.outputs]
               /\ q_requests' = sent \o early
               /\ q_quotes' = [i \in 1 .. Len(sent) |-> Pending]
               /\ UNCHANGED q_radius
    /\ UNCHANGED <<q_order, q_static, q_fixed, q_max_loss, pricing_frame>>

\* RadiusPricingClient::is_profitable(order) up to its first await
RadiusStart ==
    /\ Unpriced
    /\ LET g == radius_groups(q_order) IN
       IF g.tag = "Err"
       THEN /\ q_radius' = g
            /\ q_round' = "done"
            /\ UNCHANGED <<q_groups, q_requests, q_quotes>>
       ELSE LET sent == IF Len(g.value.outputs) > 1
                        THEN round1_requests(g.value.inputs[1], g.value.outputs)
                        ELSE input_requests(g.value.inputs, g.value.outputs[1])
            IN /\ q_round' = IF Len(g.value.outputs) > 1 THEN "round1"
                             ELSE "inputs"
               /\ q_groups' = [NoGroups EXCEPT !.inputs = g.value.inputs,
                                               !.outputs = g.value.outputs]
               /\ q_requests' = sent
               /\ q_quotes' = [i \in 1 .. Len(sent) |-> Pending]
               /\ UNCHANGED q_radius
    /\ UNCHANGED <<q_order, q_static, q_fixed, q_max_loss, pricing_frame>>

\* all requests of the round in flight have been answered
all_quoted(quotes) == \A i \in 1 .. Len(quotes) : quotes[i].tag = "Ok"
quoted_values(quotes) == [i \in 1 .. Len(quotes) |-> quotes[i].value]

\* FinishInputs, were is_profitable to ask for more than the required amount
FinishInputs_strict(quotes) ==
    LET total == checked_sum(quoted_values(quotes), 1, 0) IN
    IF total.tag = "Err"
    THEN /\ q_radius' = total
         /\ UNCHANGED q_groups
    ELSE LET estimate == FillCostEstimate(total.value,
                                          q_groups.outputs[1].required)
         IN /\ q_groups' = [q_groups EXCEPT !.estimate = Some(estimate)]
            /\ q_radius' = Ok(estimate.total_input_value
                                > estimate.total_output_value)

\* estimate_fill_cost after quote_inputs returned, and is_profitable
FinishInputs(quotes) ==
    LET total == checked_sum(quoted_values(quotes), 1, 0) IN
    IF total.tag = "Err"
    THEN /\ q_radius' = total
         /\ UNCHANGED q_groups
    ELSE LET estimate == FillCostEstimate(total.value,
                                          q_groups.outputs[1].required)
         IN /\ q_groups' = [q_groups EXCEPT !.estimate = Some(estimate)]
            /\ q_radius' = Ok(estimate.total_input_value
                                >= estimate.total_output_value)

\* quote_outputs after round 2 returned, and is_profitable
FinishRound2(quotes) ==
    LET total_cost == total_cost_of(q_groups.splits, quoted_values(quotes),
                                    1, 0)
    IN IF total_cost.tag = "Err"
       THEN /\ q_radius' = total_cost
            /\ UNCHANGED q_groups
       ELSE LET estimate == FillCostEstimate(q_groups.inputs[1].amount,
                                             total_cost.value)
            IN /\ q_groups' = [q_groups EXCEPT !.estimate = Some(estimate)]
               /\ q_radius' = Ok(estimate.total_input_value
                                   >= estimate.total_output_value)

\* the response r to the i-th request in flight arrives; try_join_all
\* returns on the first error, or when every response is in
QuoteArrives(i, r) ==
    /\ q_round \in {"inputs", "round1", "round2"}
    /\ i \in 1 .. Len(q_quotes)
    /\ q_quotes[i] = Pending
    /\ LET quotes == [q_quotes EXCEPT ![i] = r] IN
       IF r.tag = "Err"
       THEN /\ q_radius' = r
            /\ q_round' = "done"
            /\ q_quotes' = quotes
            /\ UNCHANGED <<q_groups, q_requests>>
       ELSE IF ~all_quoted(quotes)
       THEN /\ q_quotes' = quotes
            /\ UNCHANGED <<q_radius, q_round, q_groups, q_requests>>
       ELSE IF q_round = "inputs"
       THEN /\ FinishInputs(quotes)
            /\ q_round' = "done"
            /\ q_quotes' = quotes
            /\ UNCHANGED q_requests
       ELSE IF q_round = "round2"
       THEN /\ FinishRound2(quotes)
            /\ q_round' = "done"
            /\ q_quotes' = quotes
            /\ UNCHANGED q_requests
       ELSE LET output_quotes ==
                    [k \in 1 .. Len(quotes) |->
                        [group |-> q_groups.outputs[k],
                         quoted |-> quotes[k].value]]
                splits == compute_output_splits(q_groups.inputs[1].amount,
                                                output_quotes)
            IN IF splits.tag = "Err"
               THEN /\ q_radius' = splits
                    /\ q_round' = "done"
                    /\ q_quotes' = quotes
                    /\ UNCHANGED <<q_groups, q_requests>>
               ELSE LET sent == round2_requests(q_groups.inputs[1],
                                                splits.value)
                    IN /\ q_groups' =
                              [q_groups EXCEPT
                                  !.round1_results = quoted_values(quotes),
                                  !.splits = splits.value]
                       /\ q_round' = "round2"
                       /\ q_requests' = q_requests \o sent
                       /\ q_quotes' = [k \in 1 .. Len(sent) |-> Pending]
                       /\ UNCHANGED q_radius
    /\ UNCHANGED <<q_order, q_static, q_fixed, q_max_loss, pricing_frame>>

NextPricing ==
    \/ PriceStatic
    \/ \E max_loss_percent \in LossPercents : PriceFixed(max_loss_percent)
    \/ RadiusStart
    \/ \E i \in 1 .. MaxOutputs, r \in QuoteOutcomes : QuoteArrives(i, r)

SpecPricing == InitPricing /\ [][NextPricing]_allvars

(***************************************************************************)
(* FixedPricingClient::is_acceptable on its own, over orders whose values  *)
(* sit on both sides of the acceptance boundary                            *)
(***************************************************************************)
\* longest list of inputs, and of outputs, of these orders
MaxItems == 2
\* shib, like dai, is in no token table
FixedInputItems ==
    {TokenPermissions("native", 1), TokenPermissions("native", 8),
     TokenPermissions("weth", 3), TokenPermissions("weth", UMax),
     TokenPermissions("usdc", 300), TokenPermissions("dai", 1),
     TokenPermissions("shib", 1)}
FixedOutputItems ==
    {Output("native", 10, "host"), Output("native", 1, "host"),
     Output("usdc", 300, "host"), Output("weth", UMax, "host"),
     Output("dai", 1, "host")}
FixedOrders ==
    {[permitted |-> p, outputs |-> o] :
        p \in SeqsUpTo(FixedInputItems, MaxItems),
        o \in SeqsUpTo(FixedOutputItems, MaxItems)}

InitFixed ==
    /\ Init
    /\ SchedIdle
    /\ StartupDone
    /\ q_order \in FixedOrders
    /\ q_static = Pending
    /\ q_fixed = Pending
    /\ q_max_loss = 0
    /\ q_radius = Pending
    /\ q_round = "idle"
    /\ q_groups = NoGroups
    /\ q_requests = <<>>
    /\ q_quotes = <<>>
    /\ SplitsIdle

NextFixed == \E max_loss_percent \in LossPercents : PriceFixed(max_loss_percent)

SpecFixed == InitFixed /\ [][NextFixed]_allvars

(***************************************************************************)
(* compute_output_splits on its own                                        *)
(***************************************************************************)
\* input amounts, and the required and quoted amounts of a group
SplitInputs == {0, 10, 100, UMax}
SplitRequired == {0, 2, 3, 7, UMax}
SplitQuoted == {0, 10, 20, UMax}
\* what the quote service answers in round 2
SplitRound2 == {0, 1, 2, UMax}
\* an OutputQuote per group; the groups differ in their chain
OutputQuote(group, quoted) == [group |-> group, quoted |-> quoted]
SplitQuotes ==
    UNION {{[i \in 1 .. n |-> OutputQuote(OutputGroup("weth", i, r[i]), q[i])] :
               r \in [1 .. n -> SplitRequired], q \in [1 .. n -> SplitQuoted]} :
           n \in 1 .. MAX_SUPPORTED_OUTPUT_GROUPS}

InitSplits ==
    /\ Init
    /\ SchedIdle
    /\ StartupDone
    /\ q_order = [permitted |-> <<>>, outputs |-> <<>>]
    /\ q_static = Pending
    /\ q_fixed = Pending
    /\ q_max_loss = 0
    /\ q_radius = Pending
    /\ q_round = "idle"
    /\ q_groups = NoGroups
    /\ q_requests = <<>>
    /\ q_quotes = <<>>
    /\ s_input_amount \in SplitInputs
    /\ s_quotes \in SplitQuotes
    /\ s_splits = Pending
    /\ s_round2 = <<>>
    /\ s_cost = Pending
    /\ s_profitable = Pending

\* compute_output_splits(input_amount, &quotes)
ComputeSplits ==
    /\ s_splits = Pending
    /\ s_splits' = compute_output_splits(s_input_amount, s_quotes)
    /\ UNCHANGED <<s_input_amount, s_quotes, s_round2, s_cost, s_profitable,
                   vars, svars, ivars, qvars>>

\* quote_outputs from the return of round 2 on, for several output groups,
\* and is_profitable on its result
ComputeCost(round2_results) ==
    /\ s_splits.tag = "Ok"
    /\ Len(s_splits.value) > 1
    /\ s_cost = Pending
    /\ Len(round2_results) = Len(s_splits.value)
    /\ s_round2' = round2_results
    /\ LET total_cost == total_cost_of(s_splits.value, round2_results, 1, 0)
       IN IF total_cost.tag = "Err"
          THEN /\ s_cost' = total_cost
               /\ s_profitable' = total_cost
          ELSE LET estimate == FillCostEstimate(s_input_amount,
                                                total_cost.value)
               IN /\ s_cost' = Ok(estimate)
                  /\ s_profitable' = Ok(estimate.total_input_value
                                           >= estimate.total_output_value)
    /\ UNCHANGED <<s_input_amount, s_quotes, s_splits, vars, svars, ivars,
                   qvars>>

NextSplits ==
    \/ ComputeSplits
    \/ \E n \in 2 .. MAX_SUPPORTED_OUTPUT_GROUPS :
          \E r \in [1 .. n -> SplitRound2] : ComputeCost(r)

SpecSplits == InitSplits /\ [][NextSplits]_allvars
(***************************************************************************)
(* Vocabulary of the properties                                            *)
(***************************************************************************)
FetchedOrders == Range(fetched) \cap Hashes
StreamFailed == StreamFailure \in Range(fetched)
CalledOrders == {calls[i].order : i \in DOMAIN calls}
Submitted == UNION {Range(fills[k]) : k \in DOMAIN fills}
InStreamPhase == pc \in {"stream", "cache", "profit"}

\* bit (n & 0xFF) of a returned word, read off the word directly
BitIsOne(word, n) == (n % WordBits) \in word

\* the stream items whose cache and profitability stages have both run
Processed ==
    SelectSeq(fetched, LAMBDA h : h \in Hashes /\ ~(InStreamPhase /\ h = cur))

\* what the two stream filters must let through, from the cycle's inputs
PassesFilters(h) ==
    /\ h \notin Keys(cache_at_tick)
    /\ is_profitable(OrderPool[h]) = Ok(TRUE)
PricingFails(h) == is_profitable(OrderPool[h]).tag = "Err"

IndexOf(seq, h) == CHOOSE i \in 1 .. Len(seq) : seq[i] = h

(***************************************************************************)
(* C1: every hash in the filled-orders cache was the subject of a          *)
(* successful nonceBitmap read that observed its bit set, and the cache    *)
(* changes only in the step in which such a read returns, by that hash.    *)
(***************************************************************************)
C1_OnlyObservedInCache ==
    /\ [](Keys(filled_orders) \subseteq observed_set)
    /\ [][filled_orders' # filled_orders =>
            /\ pc = "nonce"
            /\ \E i \in DOMAIN reads :
                 /\ reads[i] = Pending
                 /\ reads'[i].tag = "Ok"
                 /\ BitIsOne(reads'[i].value, OrderPool[candidates[i]].nonce)
                 /\ Keys(filled_orders') \subseteq
                        Keys(filled_orders) \cup {candidates[i]}]_vars

C1_Witness ==
    /\ pc = "profit"
    /\ Len(filled_orders) = CacheCap
    /\ Keys(filled_orders) # observed_set

(***************************************************************************)
(* C2: an order whose hash is in the cache when its cache check runs is    *)
(* dropped there: it is never priced, no nonceBitmap call is issued for    *)
(* it and it is in no bundle; every fetched order that is in the cache     *)
(* during the stream phase has been dropped by the cache hit.              *)
(***************************************************************************)
C2_CacheHitSkips ==
    /\ \A h \in hits :
         /\ h \in Keys(cache_at_tick)
         /\ h \notin DOMAIN evaluated
         /\ h \notin Range(candidates)
         /\ h \notin CalledOrders
         /\ h \notin Submitted
    /\ InStreamPhase =>
         \A h \in FetchedOrders \cap Keys(filled_orders) :
             (pc = "cache" /\ cur = h) \/ h \in hits

C2_Witness ==
    /\ pc = "fill"
    /\ \E h \in hits : h \in observed_set
    /\ calls # <<>>

(***************************************************************************)
(* C3: a failed nonceBitmap read keeps the order: its unfilled() output is *)
(* Some(order), it is in the bundle submitted in that cycle, and its hash  *)
(* is not in the cache.                                                    *)
(***************************************************************************)
C3_FailedReadKeeps ==
    \A i \in DOMAIN reads :
        reads[i].tag = "Err" =>
            /\ results[i] = Some(candidates[i])
            /\ candidates[i] \notin Keys(filled_orders)
            /\ join_all_ready(results) =>
                   /\ Len(fills) = 1
                   /\ candidates[i] \in Range(fills[1])

C3_Witness ==
    /\ pc = "waiting"
    /\ \E i \in DOMAIN reads : reads[i].tag = "Err"
    /\ \E i \in DOMAIN reads : results[i] = None

(***************************************************************************)
(* C4: the call of an order reads (owner, nonce >> 8); when it returns a   *)
(* word, the order is filled iff bit (nonce & 0xFF) of the word is 1; a    *)
(* filled order is put into the cache and dropped, an unfilled order is    *)
(* kept and the cache is left as it was.                                   *)
(***************************************************************************)
C4_BitDecides ==
    [][\A i \in DOMAIN reads \cap DOMAIN reads' :
         (reads[i] = Pending /\ reads'[i].tag = "Ok") =>
            LET h == candidates[i]
                n == OrderPool[h].nonce
            IN /\ calls[i].owner = OrderPool[h].owner
               /\ calls[i].word_pos * WordBits <= n
               /\ n < (calls[i].word_pos + 1) * WordBits
               /\ IF BitIsOne(reads'[i].value, n)
                  THEN /\ results'[i] = None
                       /\ Head(filled_orders') = h
                       /\ Keys(filled_orders') \subseteq Keys(filled_orders) \cup {h}
                  ELSE /\ results'[i] = Some(h)
                       /\ filled_orders' = filled_orders]_vars

C4_Witness ==
    /\ \E i \in DOMAIN reads :
         /\ reads[i].tag = "Ok"
         /\ results[i] = None
         /\ calls[i].word_pos > 0
    /\ \E i \in DOMAIN reads :
         /\ reads[i].tag = "Ok"
         /\ reads[i].value # {}
         /\ results[i] = Some(candidates[i])

(***************************************************************************)
(* C5: stages are ordered within a cycle: an order is priced only after    *)
(* its own cache check; no nonceBitmap call exists before every fetched    *)
(* order has finished both stream stages; a bundle is submitted only after *)
(* every nonce check of the cycle has returned.                            *)
(***************************************************************************)
C5_StagesOrdered ==
    /\ (pc = "profit" \/ cur \in DOMAIN evaluated) => cur \in checked
    /\ DOMAIN evaluated \subseteq checked \ hits
    /\ calls # <<>> =>
         /\ ~InStreamPhase
         /\ Len(calls) = Len(candidates)
         /\ \A h \in FetchedOrders :
               h \in checked /\ (h \in hits \/ h \in DOMAIN evaluated)
    /\ fills # <<>> =>
         /\ Len(results) = Len(candidates)
         /\ \A i \in DOMAIN results : results[i] # Pending /\ reads[i] # Pending

C5_Witness ==
    /\ pc = "fill"
    /\ Len(candidates) >= 2
    /\ hits # {}
    /\ \E h \in DOMAIN evaluated : evaluated[h] = Ok(FALSE)

(***************************************************************************)
(* C6: when the order stream yields an error the cycle returns an error:   *)
(* no nonceBitmap call is issued, no bundle is submitted and the cache is  *)
(* the one the cycle started with.                                         *)
(***************************************************************************)
C6_FetchErrorAborts ==
    StreamFailed =>
        /\ pc = "waiting"
        /\ ret = "Err"
        /\ calls = <<>>
        /\ fills = <<>>
        /\ filled_orders = cache_at_tick

C6_Witness ==
    /\ StreamFailed
    /\ \E h \in DOMAIN evaluated : evaluated[h] = Ok(TRUE)
    /\ filled_orders # <<>>

(***************************************************************************)
(* C7: an order whose pricing returns an error is dropped alone: the step  *)
(* leaves the cycle running and the cache and candidates untouched, the    *)
(* order is never checked on chain nor submitted, and the candidates are   *)
(* those of the same stream with the failing orders left out.              *)
(***************************************************************************)
C7_PricingErrorDropsOne ==
    /\ [](/\ \A h \in DOMAIN evaluated :
               evaluated[h].tag = "Err" =>
                   /\ h \notin Range(candidates)
                   /\ h \notin CalledOrders
                   /\ h \notin Submitted
          /\ ~StreamFailed =>
                candidates =
                    SelectSeq(SelectSeq(Processed, LAMBDA h : ~PricingFails(h)),
                              PassesFilters))
    /\ [][(pc = "profit" /\ PricingFails(cur)) =>
             /\ pc' = "stream"
             /\ ret' = "running"
             /\ candidates' = candidates
             /\ filled_orders' = filled_orders]_vars

C7_Witness ==
    /\ pc = "fill"
    /\ \E h \in DOMAIN evaluated : evaluated[h].tag = "Err"
    /\ fetched[1] \in Hashes /\ PricingFails(fetched[1])
    /\ Len(fills[1]) >= 2

(***************************************************************************)
(* C8: filler.fill is never called with an empty list; a cycle with        *)
(* nothing fetched, no candidate or no survivor returns Ok without a       *)
(* submission, and its log line tells the three reasons apart.             *)
(***************************************************************************)
C8_NoEmptyBundle ==
    /\ \A k \in DOMAIN fills : fills[k] # <<>>
    /\ (pc = "waiting" /\ ret # "none" /\ ~StreamFailed) =>
         /\ ret = "Ok"
         /\ (log = "no orders fetched from transaction cache") <=> (fetched = <<>>)
         /\ (log = "no profitable, unfilled orders found") <=>
                (fetched # <<>> /\ candidates = <<>>)
         /\ (log = "no unfilled orders after nonce check") <=>
                (candidates # <<>> /\ \A i \in DOMAIN results : results[i] = None)
         /\ (fetched = <<>> \/ candidates = <<>>
               \/ \A i \in DOMAIN results : results[i] = None) => fills = <<>>

C8_Witness ==
    /\ pc = "waiting"
    /\ log = "no unfilled orders after nonce check"
    /\ Len(candidates) >= 2

(***************************************************************************)
(* C9: a failed submission ends the cycle with Ok, leaves the cache as it  *)
(* was, leaves the bundle's orders out of the cache, and the next tick can *)
(* start a cycle.                                                          *)
(***************************************************************************)
C9_FailedFillIsNotFatal ==
    /\ [](log = "failed to fill orders" =>
             /\ pc = "waiting"
             /\ ret = "Ok"
             /\ Len(fills) = 1
             /\ Range(fills[1]) \cap Keys(filled_orders) = {}
             /\ ENABLED Tick)
    /\ [][pc = "fill" =>
             /\ pc' = "waiting"
             /\ ret' = "Ok"
             /\ filled_orders' = filled_orders]_vars

C9_Witness ==
    /\ log = "failed to fill orders"
    /\ filled_orders # <<>>

(***************************************************************************)
(* C10: a cycle makes at most one submission; its list is the fetched      *)
(* orders that were not in the cache, were profitable, and whose nonce     *)
(* read failed or returned the bit unset, in fetch order, whatever the     *)
(* order in which the reads returned.                                      *)
(***************************************************************************)
C10_BundleIsExact ==
    /\ Len(fills) <= 1
    /\ fills # <<>> =>
         LET expected == SelectSeq(SelectSeq(fetched, LAMBDA h : h \in Hashes),
                                   PassesFilters)
             kept(h) ==
                 LET r == reads[IndexOf(expected, h)] IN
                 r.tag = "Err" \/
                 (r.tag = "Ok" /\ ~BitIsOne(r.value, OrderPool[h].nonce))
         IN /\ Len(reads) = Len(expected)
            /\ fills[1] = SelectSeq(expected, kept)

C10_Witness ==
    /\ pc = "fill"
    /\ out_of_order
    /\ Len(fills[1]) >= 2
    /\ Len(fills[1]) < Len(candidates)
    /\ Len(candidates) < Len(fetched)

(***************************************************************************)
(* Vocabulary of the scheduler claims                                      *)
(***************************************************************************)
\* the instant t is of the form anchor + k * slot_duration
OnBoundary(t) == t % SlotDuration = 0
\* the slot the instant t lies in
SlotOf(t) == t \div SlotDuration
\* the first boundary at or after t
NextBoundary(t) == t + ((SlotDuration - (t % SlotDuration)) % SlotDuration)
\* a cycle of process_orders is in flight
InCycle == pc # "waiting"

\* C11: with the anchor in the past at process start, the first cycle
\* starts at the first instant anchor + k * slot_duration at or after the
\* start time, not at startup for a boundary that was already missed.
\* The code does not do this: the interval's first tick is due at the
\* anchor itself, so it is delivered as soon as the loop first awaits it.
C11_FirstCycleAtNextBoundary ==
    cycles = 1 => started_at = NextBoundary(start_time)

\* C11, the failing run: the loop started between two boundaries and its
\* first cycle started at that very instant.
C11_Witness ==
    /\ cycles = 1
    /\ ~OnBoundary(start_time)
    /\ started_at = start_time

\* C12: at most one cycle per slot; after a cycle that overran a boundary
\* the next cycle starts on a boundary (the next one still in the future),
\* and no slot sees two cycle starts.
\* The code does not do this: the tick of the first overrun boundary is
\* delivered, late, as soon as the overrunning cycle ends.
C12_NextCycleOnBoundaryOnePerSlot ==
    cycles = 2 =>
        /\ OnBoundary(started_at)
        /\ SlotOf(started_at) # SlotOf(prev_started_at)

\* C12, the failing run: a cycle started on a boundary, overran the next
\* one, and the following cycle started between two boundaries.
C12_Witness ==
    /\ cycles = 2
    /\ OnBoundary(prev_started_at)
    /\ SlotOf(started_at) > SlotOf(prev_started_at)
    /\ ~OnBoundary(started_at)

\* the loop is parked in select! with the cancellation signal set
WaitingCancelled == task = "running" /\ pc = "waiting" /\ cancelled

\* C13: cycles never overlap and are atomic with respect to loop events.
\* While a cycle is in flight no tick is taken (no cycle starts, the
\* interval is not polled) and the loop does not take its cancelled branch;
\* whether or not the signal is set, the cycle in flight can take its next
\* step, so a cancellation arriving mid-cycle does not interrupt it.
C13_CycleRunsToCompletion ==
    /\ [][InCycle => /\ cycles' = cycles
                     /\ started_at' = started_at
                     /\ deadline' = deadline
                     /\ task' # "returned"]_<<vars, svars>>
    /\ [](InCycle /\ task = "running" => ENABLED CycleStep)

\* C13: cancel() was called in the middle of a cycle and that cycle went on
\* to submit its bundle and return to the loop.
C13_Witness ==
    /\ cancel_pc \in {"stream", "cache", "profit", "nonce"}
    /\ task = "running"
    /\ pc = "waiting"
    /\ log = "successfully submitted fill bundle"

\* C14: cancellation has priority over the timer.  Whenever the loop is
\* waiting with the signal set, tick ready or not, no cycle starts, the
\* exit branch is the one the loop can take, the loop does exit, and run
\* returns success after such an exit.
C14_CancellationBeatsTick ==
    /\ [][WaitingCancelled => cycles' = cycles /\ pc' = "waiting"]_<<vars, svars>>
    /\ [](WaitingCancelled => ENABLED LoopExit)
    /\ (WaitingCancelled ~> run_ret = "Ok")
    /\ [](task = "returned" /\ run_ret # "none" => run_ret = "Ok")

\* C14: cancel() was called while the loop was waiting with a tick ready,
\* and the loop exited and run returned Ok.
C14_Witness ==
    /\ cancel_pc = "waiting"
    /\ now >= deadline
    /\ task = "returned"
    /\ run_ret = "Ok"

\* C16: if the loop task ends while the cancellation signal is not set, run
\* returns an error (a normal return as an exit without cancellation, a
\* panic as a panic); run returns Ok only for a cancellation-triggered exit.
\* The code does not do this: run reads the signal when it resumes, not
\* when the task ended, so a cancel() between the two hides the panic.
C16_EndWithoutCancelIsError ==
    run_ret # "none" =>
        /\ ~ended_cancelled =>
               run_ret = IF task = "returned"
                         THEN "filler task exited without cancellation"
                         ELSE "panic in filler task"
        /\ run_ret = "Ok" => ended_cancelled

\* C16, the failing run: the loop task panicked while the signal was not
\* set, cancel() was called after that, and run returned Ok.
C16_Witness ==
    /\ task = "panicked"
    /\ ~ended_cancelled
    /\ cancel_pc = "ended"
    /\ run_ret = "Ok"

(***************************************************************************)
(* Vocabulary of the startup claims                                        *)
(***************************************************************************)
\* the failures the connection layer is to treat as transient: retryable
\* error responses and transport kinds; for the HEAD probe timeouts,
\* connection and request failures, 5xx and 429
TransientErrors(t) ==
    IF t = "transaction-cache"
    THEN {e \in ReqwestErrors :
            \/ e.is_timeout \/ e.is_connect \/ e.is_request
            \/ e.status \in {429, 500, 503}}
    ELSE {e \in TransportErrors :
            e.variant \in {"ErrorResp", "Transport"} /\ e.retry}
\* the signal fired before initialize had its three connections
CancelledDuringStartup == cancel_pc \in {"signer", "connecting"}
\* the connect future of t is still at work (or was, when it was dropped)
InProgress(t) == conn[t] \in {"attempting", "backoff"}

\* C15: if the cancellation signal fires before all three connections have
\* completed, initialize ends in failure, no connect future makes another
\* step (no further attempt, no completion, no retry event) once the signal
\* is set, and main treats the failure as a clean exit.
C15_CancelAbortsStartup ==
    /\ [][cancelled => /\ attempts' = attempts
                       /\ conn' = conn
                       /\ retry_counter' = retry_counter]_allvars
    /\ [](cancelled /\ init_pc = "connecting" => ENABLED InitCancelled)
    /\ [](CancelledDuringStartup /\ init_pc = "done"
            => init_ret \in {"initialization cancelled", "signer error"})
    /\ [](CancelledDuringStartup /\ main_ret # "none" => main_ret = "Ok")

\* C15: the signal fired while one target was connected, one was in an
\* attempt and one was waiting to retry; initialize failed with the
\* cancellation error, the two futures stayed as they were, main exited Ok.
C15_Witness ==
    /\ cancel_pc = "connecting"
    /\ init_ret = "initialization cancelled"
    /\ main_ret = "Ok"
    /\ \E t \in Targets : conn[t] = "connected"
    /\ \E t \in Targets : conn[t] = "attempting"
    /\ \E t \in Targets : conn[t] = "backoff"

\* C17: for each target a failed attempt is followed by another attempt iff
\* the failure is transient.  A failure that starts a backoff wait is a
\* transient one and the next attempt can follow it; a failure that is
\* returned is a non-transient one, it ends initialize in the same step,
\* with no retry event, and the target never attempts again.
C17_RetryIffTransient ==
    /\ [][\A t \in Targets :
            /\ conn[t] = "attempting" /\ conn'[t] = "backoff"
                 => last_err'[t] \in TransientErrors(t)
            /\ conn[t] = "attempting" /\ conn'[t] = "failed"
                 => /\ last_err'[t] \notin TransientErrors(t)
                    /\ init_pc' = "done"
                    /\ init_ret' = "initialization failure"
                    /\ retry_counter' = retry_counter
                    /\ warned' = warned
            /\ conn[t] = "failed"
                 => conn'[t] = "failed" /\ attempts'[t] = attempts[t]]_allvars
    /\ [](\A t \in Targets :
            conn[t] = "backoff" /\ init_pc = "connecting" /\ ~cancelled
                => ENABLED RetryAttempt(t))

\* C17: a target failed transiently, attempted again, and that attempt
\* failed non-transiently and was returned.
C17_Witness ==
    \E t \in Targets :
        /\ conn[t] = "failed"
        /\ attempts[t] = 2
        /\ retry_counter[t] = 1
        /\ init_ret = "initialization failure"

\* C18: the number of attempts is unbounded and a transient failure is never
\* surfaced.  Initialize ends in an error only through the signer, the
\* cancellation signal or a non-transient failure of some target; a failed
\* target's error is never a transient one; a waiting target can always
\* attempt again, however many attempts it has made; and a target at work
\* does complete its connection unless initialize ends first.
C18_OnlyFatalOrCancelEndsStartup ==
    /\ [](init_pc = "done" /\ init_ret # "Ok"
            => \/ init_ret = "signer error"
               \/ init_ret = "initialization cancelled" /\ cancelled
               \/ /\ init_ret = "initialization failure"
                  /\ \E t \in Targets : conn[t] = "failed")
    /\ [](\A t \in Targets :
            conn[t] = "failed" => last_err[t] \notin TransientErrors(t))
    /\ [](\A t \in Targets :
            conn[t] = "backoff" /\ init_pc = "connecting" /\ ~cancelled
                => ENABLED RetryAttempt(t))
    /\ \A t \in Targets :
          (InProgress(t) /\ init_pc = "connecting")
              ~> (conn[t] = "connected" \/ init_pc = "done")

\* C18: a target failed transiently on every attempt the model follows but
\* the last, which succeeded, and initialize returned Ok.
C18_Witness ==
    /\ init_ret = "Ok"
    /\ \E t \in Targets :
          /\ conn[t] = "connected"
          /\ attempts[t] = MaxAttempts
          /\ retry_counter[t] = MaxAttempts - 1

\* the attempts of target t that have failed transiently so far
TransientFailures(t) ==
    IF conn[t] = "backoff" THEN attempts[t]
    ELSE IF conn[t] = "idle" THEN 0
    ELSE attempts[t] - 1

\* C19 as stated: each connection attempt emits an event and increments the
\* retry counter of its target, so a target's counter and events equal the
\* attempts it has finished.
C19_EveryAttemptCounted ==
    \A t \in Targets :
        conn[t] \in {"backoff", "connected", "failed"}
            => retry_counter[t] = attempts[t] /\ warned[t] = attempts[t]

\* C19, amended: each attempt that fails transiently emits an event and
\* increments the retry counter of its own target in the step that starts
\* its backoff wait; an attempt that succeeds, or fails non-transiently,
\* emits no retry event and leaves every counter alone; a target's counter
\* changes only in a step of that target.
C19_EveryRetryCounted ==
    /\ [](\A t \in Targets :
            /\ retry_counter[t] = TransientFailures(t)
            /\ warned[t] = TransientFailures(t))
    /\ [][\A t \in Targets :
            retry_counter'[t] # retry_counter[t]
                => /\ conn[t] = "attempting" /\ conn'[t] = "backoff"
                   /\ retry_counter'[t] = retry_counter[t] + 1
                   /\ warned'[t] = warned[t] + 1
                   /\ \A u \in Targets \ {t} :
                         retry_counter'[u] = retry_counter[u]]_allvars

\* C19: one target is waiting after its second transient failure with its
\* counter at 2, while another connected at its first attempt and has its
\* counter still at 0.
C19_Witness ==
    \E t, u \in Targets :
        /\ conn[t] = "backoff"
        /\ retry_counter[t] = 2
        /\ conn[u] = "connected"
        /\ attempts[u] = 1
        /\ retry_counter[u] = 0

(***************************************************************************)
(* Vocabulary of the pricing claims                                        *)
(***************************************************************************)
\* the order has no inputs; the order has inputs and no outputs
EmptyInputs == q_order.permitted = <<>>
EmptyOutputs == q_order.permitted # <<>> /\ q_order.outputs = <<>>
\* the client the order was handed to has returned
Priced == q_static # Pending \/ q_fixed # Pending \/ q_radius # Pending
\* what a client returns for the error kind k
RejectedAs(k) ==
    /\ q_static # Pending => q_static = Err(k)
    /\ q_fixed # Pending => q_fixed = Err(PricingError(k))
    /\ q_radius # Pending => q_radius = Err(PricingError(k))

\* C20: for every order with no inputs every client returns NoInputs, and
\* for every order with inputs and no outputs NoOutputs, whatever the other
\* list holds (unknown tokens, amounts that overflow, too many groups): no
\* other error can come first, no quote request is sent, and the step
\* touches neither the filled-orders cache nor the chain.
C20_EmptyOrderRejectedFirst ==
    /\ [](EmptyInputs => RejectedAs("NoInputs") /\ q_requests = <<>>)
    /\ [](EmptyOutputs => RejectedAs("NoOutputs") /\ q_requests = <<>>)
    /\ [][EmptyInputs \/ EmptyOutputs
            => UNCHANGED <<filled_orders, calls, reads, fills>>]_allvars

\* C20: an order with no inputs whose outputs hold an unknown token and
\* amounts that overflow when added has been refused by the quoting client.
C20_Witness ==
    /\ EmptyInputs
    /\ Priced
    /\ q_radius = Err(PricingError("NoInputs"))
    /\ \E i, j, k \in 1 .. Len(q_order.outputs) :
          /\ q_order.outputs[i].token = "dai"
          /\ j # k
          /\ q_order.outputs[j] = q_order.outputs[k]
          /\ q_order.outputs[j].amount = UMax

(***************************************************************************)
(* Vocabulary of the static and fixed-table claims: the same quantities    *)
(* over the integers, with no 256-bit limit                                *)
(***************************************************************************)
RECURSIVE Sum(_)
Sum(amounts) ==
    IF amounts = <<>> THEN 0 ELSE Head(amounts) + Sum(Tail(amounts))
\* a value clamped at the largest U256
Saturated(x) == IF x > UMax THEN UMax ELSE x
\* the order has inputs and outputs
NonEmptyOrder == q_order.permitted # <<>> /\ q_order.outputs # <<>>
\* sums of the order's input and output amounts, and the static cost
StaticInputs == Sum(amounts_of(q_order.permitted))
StaticOutputs == Sum(amounts_of(q_order.outputs))
StaticCost ==
    StaticOutputs + gas_estimate_per_order * gas_price_gwei * WeiPerGwei
        + min_profit_threshold

\* C21: for an order with inputs and outputs the static client answers true
\* exactly when the sum of the input amounts is at least the sum of the
\* output amounts plus the gas cost plus the threshold, the right-hand side
\* clamped at the largest U256.
C21_StaticProfitableIffCovered ==
    NonEmptyOrder /\ q_static # Pending
        => q_static = Ok(StaticInputs >= Saturated(StaticCost))

\* C21: the static client has refused an order whose inputs add up to more
\* than the largest U256.
C21_Witness ==
    /\ NonEmptyOrder
    /\ q_static = Ok(FALSE)
    /\ StaticInputs > UMax

\* C22: the static client computes both totals without wrapping, and never
\* answers true for an order whose inputs are below its clamped cost.
C22_StaticNeverWraps ==
    NonEmptyOrder /\ q_static # Pending
        => /\ q_static = Ok(TRUE) => StaticInputs >= Saturated(StaticCost)
           /\ calculate_total_input_value(static_order(q_order))
                  = Saturated(StaticInputs)
           /\ calculate_total_output_value(static_order(q_order))
                  = Saturated(StaticOutputs)

\* C22: the static client has answered true for an order whose outputs add
\* up to more than the largest U256 and whose inputs do not.
C22_Witness ==
    /\ q_static = Ok(TRUE)
    /\ StaticOutputs > UMax
    /\ StaticInputs < UMax

\* the token is in the table; every token of the list is
Known(item) == item.token \in DOMAIN token_info
AllKnown(items) == \A i \in 1 .. Len(items) : Known(items[i])
AllKnownOrder == AllKnown(q_order.permitted) /\ AllKnown(q_order.outputs)
\* the items before the first one whose token is not in the table
RECURSIVE KnownPrefix(_)
KnownPrefix(items) ==
    IF items = <<>> \/ ~Known(Head(items)) THEN <<>>
    ELSE <<Head(items)>> \o KnownPrefix(Tail(items))
\* the first token of the list that is not in the table
FirstUnknown(items) == items[Len(KnownPrefix(items)) + 1].token
\* amount * usd_price * 10^(18 - decimals) of an item, and of a list
RECURSIVE PowerOfTen(_)
PowerOfTen(e) == IF e = 0 THEN 1 ELSE 10 * PowerOfTen(e - 1)
Value(item) ==
    item.amount * token_info[item.token].price_usd
        * PowerOfTen(18 - token_info[item.token].decimals)
RECURSIVE Normalized(_)
Normalized(items) ==
    IF items = <<>> THEN 0 ELSE Value(Head(items)) + Normalized(Tail(items))
NormalizedInput == Normalized(q_order.permitted)
NormalizedOutput == Normalized(q_order.outputs)
\* the comparison of the two sides over the integers
WithinLoss == NormalizedInput * 100 >= NormalizedOutput * (100 - q_max_loss)
\* no value of the computation exceeds the largest U256
NoOverflow ==
    /\ NormalizedInput <= UMax
    /\ NormalizedOutput <= UMax
    /\ NormalizedInput * 100 <= UMax
    /\ NormalizedOutput * (100 - q_max_loss) <= UMax

\* C23 as stated, for every order of known tokens, empty lists included:
\* with a percentage of at most 100 and no overflow the fixed-table client
\* answers true exactly when normalized_input * 100 >=
\* normalized_output * (100 - max_loss_percent).
C23_AcceptableIffWithinLossAnyOrder ==
    /\ q_fixed # Pending
    /\ AllKnownOrder
    /\ q_max_loss <= 100
    /\ NoOverflow
    => q_fixed = Ok(WithinLoss)

\* C23 amended: the same for every order of known tokens that has inputs
\* and outputs.
C23_AcceptableIffWithinLoss ==
    /\ q_fixed # Pending
    /\ NonEmptyOrder
    /\ AllKnownOrder
    /\ q_max_loss <= 100
    /\ NoOverflow
    => q_fixed = Ok(WithinLoss)

\* C23: at 10% an order worth 9 in and 10 out, exactly on the boundary, has
\* been accepted.
C23_Witness ==
    /\ q_max_loss = 10
    /\ AllKnownOrder
    /\ NormalizedInput = 9
    /\ NormalizedOutput = 10
    /\ q_fixed = Ok(TRUE)

\* C24: with a percentage above 100 the fixed-table client returns Overflow
\* for every order of known tokens that has inputs and outputs, whatever
\* the amounts.
C24_AboveHundredOverflows ==
    /\ q_fixed # Pending
    /\ NonEmptyOrder
    /\ AllKnownOrder
    /\ q_max_loss > 100
    => q_fixed = Err(PricingError("Overflow"))

\* C24: at 101% an order worth 9 in and 1 out, whose arithmetic overflows
\* nowhere, has been refused with Overflow.
C24_Witness ==
    /\ q_max_loss = 101
    /\ AllKnownOrder
    /\ NormalizedInput = 9
    /\ NormalizedOutput = 1
    /\ q_fixed = Err(PricingError("Overflow"))

\* some token of the order is not in the table; those tokens
HasUnknown == ~AllKnownOrder
UnknownTokens ==
    {q_order.permitted[i].token : i \in
        {k \in 1 .. Len(q_order.permitted) : ~Known(q_order.permitted[k])}}
    \cup
    {q_order.outputs[i].token : i \in
        {k \in 1 .. Len(q_order.outputs) : ~Known(q_order.outputs[k])}}
\* the error the walk over the inputs, then the outputs, meets first when it
\* stops at a token that is not in the table or at a total past UMax
FirstItemError ==
    IF Normalized(KnownPrefix(q_order.permitted)) > UMax
    THEN PricingError("Overflow")
    ELSE IF ~AllKnown(q_order.permitted)
    THEN UnknownToken(FirstUnknown(q_order.permitted))
    ELSE IF Normalized(KnownPrefix(q_order.outputs)) > UMax
    THEN PricingError("Overflow")
    ELSE UnknownToken(FirstUnknown(q_order.outputs))

\* C25 as stated: whenever a token of the order is not in the table the
\* fixed-table client returns UnknownToken carrying such a token.
C25_UnknownTokenAlwaysReported ==
    q_fixed # Pending /\ HasUnknown
        => /\ q_fixed.tag = "Err"
           /\ q_fixed.error.kind = "UnknownToken"
           /\ q_fixed.error.token \in UnknownTokens

\* C25 amended: whenever a token of the order is not in the table the
\* fixed-table client returns an error and never a boolean: NoInputs or
\* NoOutputs for an empty list, otherwise Overflow when the items walked
\* before the first absent token (inputs, then outputs) overflow, and
\* otherwise UnknownToken carrying the first absent token.
C25_UnknownTokenNeverPriced ==
    q_fixed # Pending /\ HasUnknown
        => /\ q_fixed.tag = "Err"
           /\ EmptyInputs => q_fixed.error = PricingError("NoInputs")
           /\ EmptyOutputs => q_fixed.error = PricingError("NoOutputs")
           /\ NonEmptyOrder => q_fixed.error = FirstItemError

\* C25: an order whose inputs name two absent tokens, shib before dai, has
\* been refused with UnknownToken(shib).
C25_Witness ==
    /\ q_order.permitted # <<>>
    /\ Head(q_order.permitted).token = "shib"
    /\ \E i \in 1 .. Len(q_order.permitted) : q_order.permitted[i].token = "dai"
    /\ NonEmptyOrder
    /\ q_fixed = Err(UnknownToken("shib"))

\* an operation the evaluation reaches produces a value past UMax
ExecutedOverflow ==
    /\ NonEmptyOrder
    /\ \/ Normalized(KnownPrefix(q_order.permitted)) > UMax
       \/ /\ AllKnown(q_order.permitted)
          /\ Normalized(KnownPrefix(q_order.outputs)) > UMax
       \/ /\ AllKnownOrder
          /\ NormalizedInput * 100 > UMax
       \/ /\ AllKnownOrder
          /\ q_max_loss <= 100
          /\ NormalizedOutput * (100 - q_max_loss) > UMax

\* C26: whenever an operation the fixed-table client reaches would produce
\* a value of 2^256 or more it returns Overflow, and whenever it returns a
\* boolean no value overflowed and the boolean is the comparison over the
\* integers.
C26_ArithmeticIsChecked ==
    q_fixed # Pending
        => /\ ExecutedOverflow => q_fixed = Err(PricingError("Overflow"))
           /\ q_fixed.tag = "Ok"
                 => /\ NonEmptyOrder
                    /\ AllKnownOrder
                    /\ q_max_loss <= 100
                    /\ NoOverflow
                    /\ q_fixed.value = WithinLoss

\* C26: an order whose input total fits in a U256 and whose total times
\* 100 does not has been refused with Overflow.
C26_Witness ==
    /\ NonEmptyOrder
    /\ AllKnownOrder
    /\ NormalizedInput <= UMax
    /\ NormalizedOutput <= UMax
    /\ NormalizedInput * 100 > UMax
    /\ q_fixed = Err(PricingError("Overflow"))

(***************************************************************************)
(* Vocabulary of the split claims: weights and shares over the integers    *)
(***************************************************************************)
Groups == 1 .. Len(s_quotes)
AllQuoted == \A i \in Groups : s_quotes[i].quoted # 0
\* w_i = floor(required_i * PRECISION / quoted_i), for a non-zero quote
Weight(i) == (s_quotes[i].group.required * PRECISION) \div s_quotes[i].quoted
TotalWeight == Sum([i \in Groups |-> Weight(i)])
\* floor(input * w_i / sum(w)), for a non-zero total weight
Share(i) == (s_input_amount * Weight(i)) \div TotalWeight
\* no product and no sum of the computation exceeds the largest U256
NoSplitOverflow ==
    /\ \A i \in Groups : s_quotes[i].group.required <= UMax \div PRECISION
    /\ TotalWeight <= UMax
    /\ \A i \in Groups : Weight(i) = 0 \/ s_input_amount <= UMax \div Weight(i)
\* the splits returned, when some were
SplitAmounts == [i \in 1 .. Len(s_splits.value) |-> s_splits.value[i].amount]
\* one split per group, in group order, each with its share
SplitsAsWeighted ==
    /\ s_splits.tag = "Ok"
    /\ Len(s_splits.value) = Len(s_quotes)
    /\ \A i \in Groups :
          /\ s_splits.value[i].group = s_quotes[i].group
          /\ s_splits.value[i].amount = Share(i)

\* C27 as stated: for every input amount and every list of quotes with
\* non-zero quoted amounts and a non-zero total weight, compute_output_splits
\* returns one split per group, in group order, with
\* split_i = floor(input * w_i / sum(w)).
C27_SplitsAreProportionalAnyAmount ==
    s_splits # Pending /\ AllQuoted /\ TotalWeight # 0 => SplitsAsWeighted

\* C27 amended: the same whenever, in addition, no product required_i *
\* PRECISION or input * w_i and no sum of weights reaches 2^256.
C27_SplitsAreProportional ==
    /\ s_splits # Pending
    /\ AllQuoted
    /\ TotalWeight # 0
    /\ NoSplitOverflow
    => SplitsAsWeighted

\* C27: requirements 3 and 7, both quoted 10, on an input of 100 have been
\* given 30 and 70.
C27_Witness ==
    /\ s_input_amount = 100
    /\ Len(s_quotes) = 2
    /\ s_quotes[1].group.required = 3 /\ s_quotes[1].quoted = 10
    /\ s_quotes[2].group.required = 7 /\ s_quotes[2].quoted = 10
    /\ s_splits.tag = "Ok"
    /\ SplitAmounts = <<30, 70>>

\* C28: whenever compute_output_splits succeeds, the split amounts add up
\* to at most the input amount.
C28_SplitsNeverOvershoot ==
    s_splits.tag = "Ok" => Sum(SplitAmounts) <= s_input_amount

\* C28: splits over two groups have been returned that add up to less than
\* the input: rounding lost a unit.
C28_Witness ==
    /\ s_splits.tag = "Ok"
    /\ Len(s_quotes) = 2
    /\ s_input_amount > 0
    /\ Sum(SplitAmounts) = s_input_amount - 1

\* C29: whenever the quote of some group is zero, compute_output_splits
\* returns Overflow, and so no splits.
C29_ZeroQuoteOverflows ==
    s_splits # Pending /\ ~AllQuoted
        => s_splits = Err(PricingError("Overflow"))

\* C29: Overflow has been returned for two groups of which the second is
\* quoted zero and the first, on its own, would get the whole input.
C29_Witness ==
    /\ Len(s_quotes) = 2
    /\ s_input_amount = 100
    /\ s_quotes[1].group.required = 3 /\ s_quotes[1].quoted = 10
    /\ s_quotes[2].group.required = 7 /\ s_quotes[2].quoted = 0
    /\ s_splits = Err(PricingError("Overflow"))

(***************************************************************************)
(* Vocabulary of the grouping claims                                       *)
(***************************************************************************)
\* the input tokens and the (token, chain) pairs of the outputs
InputTokens ==
    {q_order.permitted[i].token : i \in 1 .. Len(q_order.permitted)}
OutputPairs ==
    {<<q_order.outputs[i].token, q_order.outputs[i].chainId>> :
        i \in 1 .. Len(q_order.outputs)}
\* the amounts of some input token, or of some output pair, add up past UMax
GroupOverflow ==
    \/ \E t \in InputTokens :
          Sum(amounts_of(SelectSeq(q_order.permitted,
                                   LAMBDA x : x.token = t))) > UMax
    \/ \E p \in OutputPairs :
          Sum(amounts_of(SelectSeq(q_order.outputs,
                    LAMBDA x : <<x.token, x.chainId>> = p))) > UMax
TooManyGroups == Cardinality(OutputPairs) > MAX_SUPPORTED_OUTPUT_GROUPS
ManyToMany == Cardinality(InputTokens) > 1 /\ Cardinality(OutputPairs) > 1
TooManyOutputs(n) == [kind |-> "TooManyOutputs", n |-> n]

\* C30 as stated: every order with more output groups than the limit is
\* refused with TooManyOutputs, every order with several input groups and
\* several output groups with MultipleInputsMultipleOutputs, and in both
\* cases no quote request is sent.
C30_GroupLimitsAlwaysReported ==
    /\ TooManyGroups \/ ManyToMany => q_requests = <<>>
    /\ TooManyGroups /\ q_radius # Pending
          => q_radius = Err(TooManyOutputs(Cardinality(OutputPairs)))
    /\ ManyToMany /\ q_radius # Pending
          => q_radius = Err(PricingError("MultipleInputsMultipleOutputs"))

\* C30 amended: the same for orders that have inputs and whose group sums
\* do not overflow, the outputs limit taking precedence over the
\* combination; and no such order ever has a quote request sent.
C30_GroupLimitsReported ==
    /\ TooManyGroups \/ ManyToMany => q_requests = <<>>
    /\ TooManyGroups /\ q_radius # Pending /\ NonEmptyOrder /\ ~GroupOverflow
          => q_radius = Err(TooManyOutputs(Cardinality(OutputPairs)))
    /\ /\ ManyToMany
       /\ ~TooManyGroups
       /\ q_radius # Pending
       /\ NonEmptyOrder
       /\ ~GroupOverflow
       => q_radius = Err(PricingError("MultipleInputsMultipleOutputs"))

\* C30: an order with one input and one output group more than the limit
\* has been refused with TooManyOutputs, no request sent.
C30_Witness ==
    /\ Len(q_order.permitted) = 1
    /\ Cardinality(OutputPairs) = MAX_SUPPORTED_OUTPUT_GROUPS + 1
    /\ q_radius = Err(TooManyOutputs(MAX_SUPPORTED_OUTPUT_GROUPS + 1))
    /\ q_requests = <<>>

(***************************************************************************)
(* The quoting client's two paths                                          *)
(***************************************************************************)
\* the tokens of a list in order of first appearance
RECURSIVE FirstAppearances(_, _)
FirstAppearances(tokens, seen) ==
    IF tokens = <<>> THEN <<>>
    ELSE IF Head(tokens) \in seen
    THEN FirstAppearances(Tail(tokens), seen)
    ELSE <<Head(tokens)>>
            \o FirstAppearances(Tail(tokens), seen \cup {Head(tokens)})
InputTokenSeq ==
    FirstAppearances([i \in 1 .. Len(q_order.permitted) |->
                         q_order.permitted[i].token], {})
\* all the order offers of the input token t
InputAmount(t) ==
    Sum(amounts_of(SelectSeq(q_order.permitted, LAMBDA x : x.token = t)))
\* the order asks for one token on one chain, and its groups can be built
OneOutputGroup ==
    NonEmptyOrder /\ ~GroupOverflow /\ Cardinality(OutputPairs) = 1
RequiredAmount == Sum(amounts_of(q_order.outputs))
QuotedSum == Sum(quoted_values(q_quotes))

\* C31: for an order with one output group the quoting client sends one
\* request per input group, for the group's whole amount and against the
\* output group's token and chain; once every quote is in, the sum of the
\* quotes is the estimate's input value (Overflow when it does not fit),
\* the group's required amount its output value, and the order is
\* profitable iff the sum is at least the required amount.
C31_SingleOutputGroupQuoting ==
    OneOutputGroup /\ q_round # "idle" =>
        /\ Len(q_requests) = Len(InputTokenSeq)
        /\ \A i \in 1 .. Len(q_requests) :
              q_requests[i] =
                  QuoteRequest(InputTokenSeq[i], q_order.outputs[1].token,
                               q_order.outputs[1].chainId,
                               InputAmount(InputTokenSeq[i]), "inputs")
        /\ q_radius.tag = "Ok" => all_quoted(q_quotes)
        /\ q_round = "done" /\ all_quoted(q_quotes) =>
              IF QuotedSum > UMax
              THEN q_radius = Err(PricingError("Overflow"))
              ELSE /\ q_groups.estimate
                          = Some(FillCostEstimate(QuotedSum, RequiredAmount))
                   /\ q_radius = Ok(QuotedSum >= RequiredAmount)

\* C31: two input groups were quoted against one output group and the sum
\* of the quotes just meets the required amount: profitable.
C31_Witness ==
    /\ OneOutputGroup
    /\ Len(q_requests) = 2
    /\ q_round = "done"
    /\ all_quoted(q_quotes)
    /\ RequiredAmount > 1
    /\ QuotedSum = RequiredAmount
    /\ q_radius = Ok(TRUE)

\* the output groups whose round-2 quotes are in
CostGroups == 1 .. Len(s_round2)
\* the round-2 quote of group i covers what the group requires
Covered(i) == s_round2[i] >= s_splits.value[i].group.required
\* the extrapolated cost of group i does not exist: a zero quote, or a
\* product past the largest U256
CostOverflow(i) ==
    /\ ~Covered(i)
    /\ \/ s_round2[i] = 0
       \/ s_splits.value[i].amount
             > UMax \div s_splits.value[i].group.required
GroupCost(i) ==
    IF Covered(i) THEN s_splits.value[i].amount
    ELSE (s_splits.value[i].amount * s_splits.value[i].group.required)
            \div s_round2[i]
TotalCost == Sum([i \in CostGroups |-> GroupCost(i)])

\* C32: with one input group and several output groups, the cost of a group
\* is its split when the round-2 quote covers the required amount and
\* floor(split * required / quote) otherwise; the total cost is the sum of
\* the groups' costs and the order is profitable iff the input amount is at
\* least the total cost; an overflow of a product or of the sum, or a zero
\* round-2 quote for a group that requires a positive amount, gives
\* Overflow instead.
C32_CostOfSeveralOutputGroups ==
    s_cost # Pending =>
        /\ Len(s_round2) = Len(s_splits.value)
        /\ IF (\E i \in CostGroups : CostOverflow(i)) \/ TotalCost > UMax
           THEN /\ s_cost = Err(PricingError("Overflow"))
                /\ s_profitable = Err(PricingError("Overflow"))
           ELSE /\ s_cost = Ok(FillCostEstimate(s_input_amount, TotalCost))
                /\ s_profitable = Ok(s_input_amount >= TotalCost)
        /\ (\E i \in CostGroups :
                s_round2[i] = 0 /\ s_splits.value[i].group.required > 0)
              => s_profitable = Err(PricingError("Overflow"))

\* C32: one group's quote covers it and the other's falls short without
\* being zero; the extrapolated total exceeds the input amount, so the
\* order is not profitable.
C32_Witness ==
    /\ s_cost # Pending
    /\ s_input_amount > 0
    /\ \E i, j \in CostGroups :
          /\ Covered(i)
          /\ s_splits.value[i].amount > 0
          /\ ~Covered(j)
          /\ s_round2[j] > 0
          /\ s_splits.value[j].amount > 0
    /\ s_profitable = Ok(FALSE)

(***************************************************************************)
(* The cache under concurrent nonce checks                                 *)
(***************************************************************************)
\* the candidates whose nonce read is still awaited
PendingReads == {i \in 1 .. Len(results) : results[i] = Pending}
\* the hashes this cycle's nonce checks have put into the cache
InsertedThisCycle == Keys(filled_orders) \ Keys(cache_at_tick)

OwnBitSet(i) == BitObservedSet(candidates[i], reads[i])
FailedReads == {i \in 1 .. Len(reads) : reads[i].tag = "Err"}

\* C34: each nonce check decides on its own read alone: its order is
\* dropped and cached iff that read returned with the order's bit set, and
\* kept otherwise, a failed read included; a failed read leaves the cycle
\* running, the other reads awaited, and the join ends only when every
\* read is in.
C34_NonceChecksAreIndependent ==
    /\ Len(reads) = Len(results)
    /\ \A i \in 1 .. Len(results) :
          /\ results[i] = Pending <=> reads[i] = Pending
          /\ results[i] # Pending =>
                results[i] = IF OwnBitSet(i) THEN None
                             ELSE Some(candidates[i])
          /\ order_hash(candidates[i]) \in InsertedThisCycle => OwnBitSet(i)
    /\ Cardinality({i \in 1 .. Len(reads) : OwnBitSet(i)}) <= CacheCap =>
          \A i \in 1 .. Len(reads) :
              OwnBitSet(i) => order_hash(candidates[i]) \in Keys(filled_orders)
    /\ FailedReads # {} =>
          /\ ret # "Err"
          /\ pc # "nonce" => PendingReads = {}
          /\ pc = "nonce" => PendingReads # {}

\* C34: of two orders checked in one cycle, the read of one failed and
\* the order was kept, and the other was found filled, dropped and cached.
C34_Witness ==
    /\ Len(results) = 2
    /\ \E i, j \in 1 .. 2 :
          /\ reads[i].tag = "Err"
          /\ results[i] = Some(candidates[i])
          /\ OwnBitSet(j)
          /\ results[j] = None
          /\ order_hash(candidates[j]) \in Keys(filled_orders)
    /\ fills = <<flatten(results)>>

\* the entry of the cache that was put least recently
LeastRecent == filled_orders[Len(filled_orders)]

\* C35: the cache never holds more than its capacity of hashes, each once;
\* putting a new hash into a full cache removes exactly one entry, the
\* least recently used one, and putting one into a cache with room
\* removes none.
C35_CacheBoundedLruEviction ==
    /\ [](/\ Len(filled_orders) <= CacheCap
          /\ Cardinality(Keys(filled_orders)) = Len(filled_orders))
    /\ [][Keys(filled_orders') # Keys(filled_orders) =>
            /\ Cardinality(Keys(filled_orders') \ Keys(filled_orders)) = 1
            /\ Keys(filled_orders) \ Keys(filled_orders') =
                  IF Len(filled_orders) = CacheCap THEN {LeastRecent}
                  ELSE {}]_allvars

\* C35: the cache is full and a hash that was put into it is gone.
C35_Witness ==
    /\ Len(filled_orders) = CacheCap
    /\ observed_set \ Keys(filled_orders) # {}

\* the entries of the cache that stay, in their recency order
Staying == SelectSeq(filled_orders, LAMBDA x : x \in Keys(filled_orders'))

\* C39: the cache-check step leaves the cache as it is, contents and
\* recency order, on a hit as on a miss; the cache changes only when a
\* nonce check puts the hash of an order whose read shows it filled, which
\* becomes the most recent entry while the others keep their order; and an
\* entry leaves only on such a step.
C39_CacheCheckIsReadOnly ==
    /\ [][pc = "cache" => filled_orders' = filled_orders]_allvars
    /\ [][filled_orders' # filled_orders =>
            /\ pc = "nonce"
            /\ \E i \in PendingReads :
                  /\ reads'[i].tag = "Ok"
                  /\ BitObservedSet(candidates[i], reads'[i])
                  /\ Head(filled_orders') = order_hash(candidates[i])
            /\ Tail(filled_orders')
                  = SelectSeq(Staying, LAMBDA x : x # Head(filled_orders'))
       ]_allvars

\* C39: the cache check has just dropped the least recent of two cached
\* orders, and the cache is as the cycle found it.
C39_Witness ==
    /\ pc = "stream"
    /\ Len(filled_orders) = 2
    /\ LeastRecent \in hits
    /\ Len(fetched) = 1
    /\ filled_orders = cache_at_tick

(***************************************************************************)
(* The scheduler after a failed cycle                                      *)
(***************************************************************************)
\* the locals of process_orders as a cycle finds them
FreshCycle ==
    /\ cur' = NoOrder
    /\ orders_count' = 0
    /\ candidates' = <<>>
    /\ calls' = <<>> /\ reads' = <<>> /\ results' = <<>> /\ fills' = <<>>
    /\ ret' = "running"
    /\ log' = "none"
    /\ filled_orders_guard' = NoGuard

\* C36: a cycle that ends in error leaves the loop parked in its select
\* with the scheduler's state untouched; the loop ends afterwards only on
\* cancellation, and when the next tick is due it starts a cycle whose
\* locals are fresh and whose cache is the one the failed cycle left,
\* exactly as after a cycle that succeeded.
C36_ErrorDoesNotStopScheduler ==
    /\ [](ret = "Err" =>
            /\ pc = "waiting"
            /\ task \in {"running", "returned"}
            /\ task = "returned" => ended_cancelled
            /\ run_ret \in {"none", "Ok"}
            /\ task = "running" /\ ~cancelled /\ now >= deadline
                  => ENABLED LoopTick)
    /\ [][ret # "Err" /\ ret' = "Err" =>
            /\ task' = "running"
            /\ UNCHANGED <<now, deadline, cancelled, run_ret, filled_orders>>
       ]_allvars
    /\ [][pc = "waiting" /\ pc' = "stream" =>
            /\ FreshCycle
            /\ filled_orders' = filled_orders
            /\ deadline' > now
       ]_allvars

\* C36: the cycle before failed, and the cycle the next tick started has
\* gone through its stream and is checking nonces.
C36_Witness ==
    /\ prev_ret = "Err"
    /\ task = "running"
    /\ pc = "nonce"
    /\ ret = "running"

Round(k) == {i \in 1 .. Len(q_requests) : q_requests[i].round = k}
Round2Sent == Round("round2") # {}
\* the responses in flight or in that are errors
FailedQuotes == {i \in 1 .. Len(q_quotes) : q_quotes[i].tag = "Err"}

\* C37: the two rounds of quoting are phased: a round-2 request exists
\* only after every round-1 quote came back Ok and the splits were
\* computed from them, and it asks for its group's split; when a round-1
\* quote fails or the splits cannot be computed the call ends with that
\* error and without any round-2 request; when a round-2 quote fails the
\* call ends with that error.
C37_RoundsArePhased ==
    /\ q_round = "round1" => ~Round2Sent
    /\ Round2Sent =>
          /\ Cardinality(Round("round1")) = Cardinality(OutputPairs)
          /\ Cardinality(Round("round2")) = Cardinality(OutputPairs)
          /\ \A i \in Round("round1"), j \in Round("round2") : i < j
          /\ Len(q_groups.round1_results) = Cardinality(OutputPairs)
          /\ \A k \in 1 .. Len(q_groups.round1_results) :
                q_groups.round1_results[k] \in 0 .. UMax
          /\ q_groups.splits =
                compute_output_splits(
                    q_groups.inputs[1].amount,
                    [k \in 1 .. Len(q_groups.outputs) |->
                        [group |-> q_groups.outputs[k],
                         quoted |-> q_groups.round1_results[k]]]).value
          /\ \A k \in 1 .. Len(q_groups.splits) :
                q_requests[Len(q_groups.splits) + k].amount_in
                    = q_groups.splits[k].amount
    /\ q_round = "done" /\ Round("round1") # {} /\ ~Round2Sent =>
          /\ q_radius.tag = "Err"
          /\ FailedQuotes # {} => q_radius \in {q_quotes[i] : i \in FailedQuotes}
          /\ FailedQuotes = {} =>
                /\ all_quoted(q_quotes)
                /\ q_radius = Err(PricingError("Overflow"))
    /\ q_round = "done" /\ Round2Sent /\ FailedQuotes # {} =>
          q_radius \in {q_quotes[i] : i \in FailedQuotes}
    /\ q_radius.tag = "Ok" /\ Round("round1") # {} =>
          Round2Sent /\ all_quoted(q_quotes)

\* C37: both round-1 quotes came back, the splits were computed and sent
\* as round-2 requests, and the call ended on a failed round-2 quote.
C37_Witness ==
    /\ Cardinality(Round("round1")) = 2
    /\ Cardinality(Round("round2")) = 2
    /\ q_round = "done"
    /\ FailedQuotes # {}
    /\ q_radius = Err(PricingError("ApiError"))

(***************************************************************************)
(* The join of the startup connections                                     *)
(***************************************************************************)
FailedTargets == {t \in Targets : conn[t] = "failed"}

\* C40: the three startup connections are joined fail-fast: an attempt
\* that fails with an error the retry layer does not retry ends
\* initialization with an error in that very step, whatever the other two
\* targets are doing, and they make no further attempt; initialization
\* succeeds only when all three are connected.
C40_StartupJoinFailsFast ==
    /\ [](FailedTargets # {} =>
            /\ init_pc = "done"
            /\ init_ret = "initialization failure"
            /\ Cardinality(FailedTargets) = 1
            /\ \A t \in FailedTargets : ~when(t, last_err[t]))
    /\ [](init_ret = "Ok" => \A t \in Targets : conn[t] = "connected")
    /\ [][\A t \in Targets :
            last_err'[t] # last_err[t] /\ ~when(t, last_err'[t]) =>
                /\ conn'[t] = "failed"
                /\ init_pc' = "done"
                /\ init_ret' = "initialization failure"
                /\ \A u \in Targets \ {t} : conn'[u] = conn[u]
       ]_allvars
    /\ [][init_pc = "done" =>
            UNCHANGED <<conn, attempts, retry_counter, warned, last_err,
                        init_ret>>
       ]_allvars

\* C40: one target failed for good while a second was asleep between two
\* attempts and the third had an attempt under way; initialization ended
\* with the error and main reported it.
C40_Witness ==
    /\ FailedTargets # {}
    /\ \E u, v \in Targets :
          /\ conn[u] = "backoff"
          /\ conn[v] = "attempting"
    /\ init_ret = "initialization failure"
    /\ main_ret = "Err"

====
